---------------------------- MODULE Spec2Model ----------------------------
(***************************************************************************)
(* EMG gait analysis (rehacalc): heel-strike (HS) detection from an EMG    *)
(* envelope, cross-source reconciliation against video events, %peak and   *)
(* cycle normalisation.                                                    *)
(*                                                                         *)
(* Numbers.  The JavaScript works on doubles.  Here every sample amplitude *)
(* is a natural number (or NaN), every time is an integer number of ticks, *)
(* and every derived quantity is kept as an exact fraction:                *)
(*   - a median is kept doubled (median2 = 2 * median),                    *)
(*   - a MAD is kept as a fraction num/den,                                *)
(*   - a score is kept as  num/den + sqrt(rad)/div  and two scores are     *)
(*     compared through 4-decimal fixed-point values of that expression.   *)
(* Array indices are the source's 0-based indices; TLA+ sequences are      *)
(* 1-based, so sample i of env is env[i + 1].                              *)
(***************************************************************************)
EXTENDS Integers, Sequences, FiniteSets, TLC

VARIABLES
    pc,           \* which operation ran last
    env,          \* the envelope handed to detectHS / percentPeak
    fs,           \* sampling rate, Hz
    opts,         \* detectHS options: expectedCount, minBurstMs, minGapMs, offsetMs
    hs,           \* an event index sequence handed to an operation
    ext,          \* the external (video) side: videoEvents, syncRange, tolMs, ...
    result,       \* what the operation returned (or that it threw)
    env2,         \* the envelope of channel 2 (the measured muscle)
    state         \* the page's state object: result1, result2, and the message area

vars == <<pc, env, env2, fs, opts, hs, ext, result, state>>

-----------------------------------------------------------------------------
(* Values that are not numbers *)

\* NaN: every amplitude is >= 0, so a negative sentinel cannot clash.
NaN == -1
\* null, for an absent expectedCount
Null == -1
\* merged = [hs[0]] of an empty array holds undefined
Undefined == -2

IsFinite(v) == v >= 0

-----------------------------------------------------------------------------
(* Arithmetic helpers *)

\* F(v), with v evaluated once, as a statement evaluates its right-hand side
\* once and names the value
With(v, F(_)) == CHOOSE r \in {F(x) : x \in {v}} : TRUE

Abs(x) == IF x < 0 THEN -x ELSE x
Max2(a, b) == IF a >= b THEN a ELSE b
Min2(a, b) == IF a <= b THEN a ELSE b

\* Math.round(num/den) for den > 0: floor(x + 1/2)
Round(num, den) == (2 * num + den) \div (2 * den)

\* Math.round((fs * ms) / 1000)
MsToSamples(f, ms) == Round(f * ms, 1000)

RECURSIVE SumSeq(_)
SumSeq(s) == IF s = <<>> THEN 0 ELSE Head(s) + SumSeq(Tail(s))

RECURSIVE SumSq(_)
SumSq(s) == IF s = <<>> THEN 0 ELSE Head(s) * Head(s) + SumSq(Tail(s))

RECURSIVE InsertAsc(_, _)
InsertAsc(x, s) ==
    IF s = <<>> THEN <<x>>
    ELSE IF x < Head(s) THEN <<x>> \o s
    ELSE <<Head(s)>> \o InsertAsc(x, Tail(s))

\* Array.prototype.sort((a, b) => a - b)
RECURSIVE SortAsc(_)
SortAsc(s) ==
    IF s = <<>> THEN <<>>
    ELSE InsertAsc(s[Len(s)], SortAsc(SubSeq(s, 1, Len(s) - 1)))

\* hs.filter((_, i) => i % m === off)
EveryNth(s, m, off) ==
    LET idx == SelectSeq([i \in 1..Len(s) |-> i], LAMBDA i : (i - 1) % m = off)
    IN  [j \in 1..Len(idx) |-> s[idx[j]]]

\* intervals in samples: hs[i] - hs[i-1]
Diffs(s) == [i \in 1..(Len(s) - 1) |-> s[i + 1] - s[i]]

-----------------------------------------------------------------------------
(* Robust statistics *)

FiniteOnly(arr) == SelectSeq(arr, IsFinite)

\* median(arr), doubled; NaN when no finite entry remains
median2(arr) ==
    LET a   == SortAsc(FiniteOnly(arr))
        n   == Len(a)
        mid == n \div 2
    IN  IF n = 0 THEN NaN
        ELSE IF n % 2 = 0 THEN a[mid] + a[mid + 1]
        ELSE 2 * a[mid + 1]

\* mad(arr), times 4: the median of |v - med|
mad4(arr) ==
    LET med2 == median2(arr)
        dev2 == [i \in 1..Len(arr) |->
                    IF IsFinite(arr[i]) /\ IsFinite(med2)
                    THEN Abs(2 * arr[i] - med2) ELSE NaN]
    IN  median2(dev2)

\* percentile(arr, p) with p/100 = pn/pd, times pd; NaN on no finite entry
percentileTimes(arr, pn, pd) ==
    LET a    == SortAsc(FiniteOnly(arr))
        n    == Len(a)
        posN == pn * (n - 1)
        i0   == posN \div pd
        i1   == Min2(n - 1, i0 + 1)
        wN   == posN % pd
    IN  IF n = 0 THEN NaN
        ELSE a[i0 + 1] * (pd - wN) + a[i1 + 1] * wN


-----------------------------------------------------------------------------
(* Scores.  A score is Infinity, or the number num/den + sqrt(rad)/div.    *)

Infinity == [inf |-> TRUE, num |-> 0, den |-> 1, rad |-> 0, div |-> 1]

\* four decimals
FixedOne == 100 * 100

RECURSIVE ISqrtFrom(_, _)
ISqrtFrom(n, r) == IF (r + 1) * (r + 1) > n THEN r ELSE ISqrtFrom(n, r + 1)

\* one more decimal digit of a square root, st = <<root so far, remainder>>
SqrtDigit(st) ==
    LET p == st[1]
        r == st[2] * 100
        d == CHOOSE x \in 0..9 :
                /\ (20 * p + x) * x <= r
                /\ (x = 9 \/ (20 * p + x + 1) * (x + 1) > r)
    IN  <<10 * p + d, r - (20 * p + d) * d>>

\* floor(sqrt(n) * FixedOne)
SqrtFixed(n) ==
    LET p0 == ISqrtFrom(n, 0)
    IN  SqrtDigit(SqrtDigit(SqrtDigit(SqrtDigit(<<p0, n - p0 * p0>>))))[1]

\* the score in units of 1/FixedOne, rounded down (less than 3 units low)
Fixed(sc) ==
    (sc.num \div sc.den) * FixedOne
        + ((sc.num % sc.den) * FixedOne) \div sc.den
        + SqrtFixed(sc.rad) \div sc.div

\* the two scores are the same number
ScoreSame(a, b) ==
    /\ a.inf = b.inf
    /\ a.inf \/ (/\ a.num * b.den = b.num * a.den
                 /\ a.rad * b.div * b.div = b.rad * a.div * a.div)

\* a < b on doubles
ScoreLess(a, b) ==
    IF a.inf THEN FALSE
    ELSE IF b.inf THEN TRUE
    ELSE IF ScoreSame(a, b) THEN FALSE
    ELSE Fixed(a) < Fixed(b)

\* a <= b on doubles
ScoreLeq(a, b) == ~ScoreLess(b, a)

\* plausibleStep, in hundredths of a second
PlausibleStep == [lo |-> 35, hi |-> 160]

\* the stride the score is centred on, in tenths of a second (0.7 s)
TargetStride10 == 7

\* 5*bad + 2*cv + 0.5*|medInt - target| (+ 0.8*|count - expected|)
scoreWith(h, f, plausible, expectedCount, target10) ==
    IF Len(h) < 2 THEN Infinity
    ELSE
      LET d    == Diffs(h)
          n    == Len(d)
          S    == SumSeq(d)
          Q    == n * SumSq(d) - S * S
          med2 == median2(d)
          b    == Cardinality({i \in 1..n :
                      100 * d[i] < plausible.lo * f \/ 100 * d[i] > plausible.hi * f})
          e    == IF expectedCount = Null THEN 0 ELSE Abs(Len(h) - expectedCount)
      IN  [inf |-> FALSE,
           num |-> 200 * f * b + n * Abs(10 * med2 - 2 * target10 * f) + 32 * f * n * e,
           den |-> 40 * f * n,
           rad |-> IF S = 0 THEN 0 ELSE 4 * Q,
           div |-> IF S = 0 THEN 1 ELSE S]

scoreHS(h, f, plausible, expectedCount) ==
    scoreWith(h, f, plausible, expectedCount, TargetStride10)

-----------------------------------------------------------------------------
(* Bursts, peaks and merging *)

\* a > b and a >= b on doubles: false as soon as one side is NaN
Gt(a, b) == IsFinite(a) /\ IsFinite(b) /\ a > b
Ge(a, b) == IsFinite(a) /\ IsFinite(b) /\ a >= b

\* the maximal runs of true in mask, as <<start, end>> with end exclusive
risingEdges(mask) ==
    LET n      == Len(mask)
        starts == SelectSeq([i \in 1..n |-> i - 1],
                      LAMBDA i : mask[i + 1] /\ (i = 0 \/ ~mask[i]))
        ends   == SelectSeq([i \in 1..n |-> i],
                      LAMBDA i : mask[i] /\ (i = n \/ ~mask[i + 1]))
    IN  [j \in 1..Min2(Len(starts), Len(ends)) |-> <<starts[j], ends[j]>>]

localMaxima(y) ==
    SelectSeq([i \in 1..Max2(0, Len(y) - 2) |-> i],
        LAMBDA i : Gt(y[i + 1], y[i]) /\ Ge(y[i + 1], y[i + 2]))

\* stable insertion by amplitude, descending
RECURSIVE InsertByAmp(_, _, _)
InsertByAmp(y, x, s) ==
    IF s = <<>> THEN <<x>>
    ELSE IF y[x + 1] > y[Head(s) + 1] THEN <<x>> \o s
    ELSE <<Head(s)>> \o InsertByAmp(y, x, Tail(s))

RECURSIVE SortByAmpDesc(_, _)
SortByAmpDesc(y, s) ==
    IF s = <<>> THEN <<>>
    ELSE InsertByAmp(y, s[Len(s)], SortByAmpDesc(y, SubSeq(s, 1, Len(s) - 1)))

RECURSIVE GreedyPick(_, _, _, _)
GreedyPick(peaks, chosen, minDist, maxCount) ==
    IF peaks = <<>> THEN chosen
    ELSE
      LET idx == Head(peaks)
          ok  == \A j \in 1..Len(chosen) : Abs(idx - chosen[j]) >= minDist
          ch  == IF ok THEN Append(chosen, idx) ELSE chosen
      IN  IF ok /\ maxCount # Null /\ maxCount # 0 /\ Len(ch) >= maxCount
          THEN ch
          ELSE GreedyPick(Tail(peaks), ch, minDist, maxCount)

\* thr5 is the threshold times 5 (a percentile at 80 or 60), or NaN
pickPeaksGreedy(y, minDist, thr5, maxCount) ==
    LET peaks == SelectSeq(localMaxima(y),
                     LAMBDA i : IsFinite(thr5) /\ 5 * y[i + 1] > thr5)
    IN  SortAsc(GreedyPick(SortByAmpDesc(y, peaks), <<>>, minDist, maxCount))

RECURSIVE refineToOnset(_, _, _)
refineToOnset(y, peakIdx, thrOff5) ==
    IF peakIdx > 0 /\ IsFinite(thrOff5) /\ IsFinite(y[peakIdx + 1])
          /\ 5 * y[peakIdx + 1] > thrOff5
    THEN refineToOnset(y, peakIdx - 1, thrOff5)
    ELSE peakIdx

\* a merge that keeps every event, whatever the gap
RECURSIVE MergeGap_keepAll(_, _, _)
MergeGap_keepAll(h, merged, minGap) ==
    IF h = <<>> THEN merged
    ELSE MergeGap_keepAll(Tail(h), Append(merged, Head(h)), minGap)

RECURSIVE MergeGap(_, _, _)
MergeGap(h, merged, minGap) ==
    IF h = <<>> THEN merged
    ELSE IF Head(h) - merged[Len(merged)] >= minGap
         THEN MergeGap(Tail(h), Append(merged, Head(h)), minGap)
         ELSE MergeGap(Tail(h), merged, minGap)

applyOffsetAndMerge(hsRaw, offset, minGap, nMax) ==
    IF Len(hsRaw) = 0 THEN <<>>
    ELSE
      LET shifted == [i \in 1..Len(hsRaw) |-> hsRaw[i] + offset]
          h       == SortAsc(SelectSeq(shifted, LAMBDA v : v >= 0 /\ v < nMax))
      IN  IF h = <<>> THEN <<Undefined>>
          ELSE MergeGap(Tail(h), <<Head(h)>>, minGap)

-----------------------------------------------------------------------------
(* detectHS: MAD-threshold burst onsets, then the peak fallbacks *)

\* the k sweep, in tenths: 1.2, 1.3, ..., 4.0
KFirst10 == 12
KLast10 == 40

Thrown(msg) == [ok |-> FALSE, error |-> msg]
Returned(mode, k, thr, h, sc) ==
    [ok |-> TRUE, mode |-> mode, k |-> k, thr |-> thr, hs |-> h, score |-> sc]

\* m = mad(env), or (P75 - P25)/1.349 when the MAD is NaN or below 1e-12
spreadOf(e) ==
    LET m4 == mad4(e)
    IN  IF IsFinite(m4) /\ m4 > 0 THEN [nan |-> FALSE, num |-> m4, den |-> 4]
        ELSE LET p75 == percentileTimes(e, 3, 4)
                 p25 == percentileTimes(e, 1, 4)
             IN  IF IsFinite(p75) /\ IsFinite(p25)
                 THEN [nan |-> FALSE, num |-> 250 * (p75 - p25), den |-> 1349]
                 ELSE [nan |-> TRUE, num |-> 0, den |-> 1]

\* mask[i] = env[i] > med + k*m, with med = med2/2, k = k10/10, m = num/den
maskAbove(e, med2, m, k10) ==
    [i \in 1..Len(e) |->
        IsFinite(e[i]) /\ 20 * m.den * e[i] > 10 * m.den * med2 + 2 * k10 * m.num]

\* the burst onsets that last at least minBurst samples
onsetsOf(mask, minBurst) ==
    LET segs == SelectSeq(risingEdges(mask), LAMBDA sg : sg[2] - sg[1] >= minBurst)
    IN  [j \in 1..Len(segs) |-> segs[j][1]]

\* a candidate accepted with a single event
candidateAt_single(e, f, o, med2, m, k10) ==
    LET raw == onsetsOf(maskAbove(e, med2, m, k10), MsToSamples(f, o.minBurstMs))
        h   == applyOffsetAndMerge(raw, MsToSamples(f, o.offsetMs),
                                   MsToSamples(f, o.minGapMs), Len(e))
    IN  IF Len(raw) = 0 \/ Len(h) < 1 \/ h = <<Undefined>> THEN [none |-> TRUE]
        ELSE [none |-> FALSE,
              res  |-> Returned("onset", k10,
                           [num |-> 10 * m.den * med2 + 2 * k10 * m.num, den |-> 20 * m.den],
                           h, scoreHS(h, f, PlausibleStep, o.expectedCount))]

\* the candidate of one k: no candidate when fewer than 2 events remain
candidateAt(e, f, o, med2, m, k10) ==
    LET raw == onsetsOf(maskAbove(e, med2, m, k10), MsToSamples(f, o.minBurstMs))
        h   == applyOffsetAndMerge(raw, MsToSamples(f, o.offsetMs),
                                   MsToSamples(f, o.minGapMs), Len(e))
    IN  IF Len(raw) = 0 \/ Len(h) < 2 THEN [none |-> TRUE]
        ELSE [none |-> FALSE,
              res  |-> Returned("onset", k10,
                           [num |-> 10 * m.den * med2 + 2 * k10 * m.num, den |-> 20 * m.den],
                           h, scoreHS(h, f, PlausibleStep, o.expectedCount))]

\* a sweep that lets a later candidate of equal score replace the best
RECURSIVE sweepK_last(_, _, _, _, _, _, _)
sweepK_last(e, f, o, med2, m, k10, best) ==
    IF k10 > KLast10 THEN best
    ELSE
      LET c == candidateAt(e, f, o, med2, m, k10)
          b == IF c.none THEN best
               ELSE IF best.none \/ ScoreLeq(c.res.score, best.res.score) THEN c
               ELSE best
      IN  sweepK_last(e, f, o, med2, m, k10 + 1, b)

\* best === null || sc < best.score, over the ks in ascending order
RECURSIVE sweepK(_, _, _, _, _, _, _)
sweepK(e, f, o, med2, m, k10, best) ==
    IF k10 > KLast10 THEN best
    ELSE
      LET c == candidateAt(e, f, o, med2, m, k10)
          b == IF c.none THEN best
               ELSE IF best.none \/ ScoreLess(c.res.score, best.res.score) THEN c
               ELSE best
      IN  sweepK(e, f, o, med2, m, k10 + 1, b)

\* a fallback that returns the peaks without counting them
peakFallback_unchecked(e, f, o) ==
    LET minGap  == MsToSamples(f, o.minGapMs)
        thrPeak == percentileTimes(e, 4, 5)
        peaks   == pickPeaksGreedy(e, minGap, thrPeak, o.expectedCount)
        direct  == applyOffsetAndMerge(peaks, MsToSamples(f, o.offsetMs), minGap, Len(e))
    IN  Returned("peak-direct", 0, [num |-> thrPeak, den |-> 5], direct,
                 scoreHS(direct, f, PlausibleStep, o.expectedCount))

peakFallback(e, f, o) ==
    LET minGap  == MsToSamples(f, o.minGapMs)
        offset  == MsToSamples(f, o.offsetMs)
        thrPeak == percentileTimes(e, 4, 5)
        thrOff  == percentileTimes(e, 3, 5)
        peaks   == pickPeaksGreedy(e, minGap, thrPeak, o.expectedCount)
        onsets  == [j \in 1..Len(peaks) |-> refineToOnset(e, peaks[j], thrOff)]
        h       == applyOffsetAndMerge(onsets, offset, minGap, Len(e))
        direct  == applyOffsetAndMerge(peaks, offset, minGap, Len(e))
        thr     == [num |-> thrPeak, den |-> 5]
    IN  IF Len(peaks) >= 2 /\ Len(h) >= 2
        THEN Returned("peak-fallback", 0, thr, h,
                      scoreHS(h, f, PlausibleStep, o.expectedCount))
        ELSE IF Len(direct) >= 2
        THEN Returned("peak-direct", 0, thr, direct,
                      scoreHS(direct, f, PlausibleStep, o.expectedCount))
        ELSE Thrown("HS estimation failed")

\* a detector that goes to the peaks without looking at the sweep
detectHS_peaksOnly(e, f, o) == peakFallback(e, f, o)

detectHS(e, f, o) ==
    LET med2 == median2(e)
        m    == spreadOf(e)
        best == IF ~m.nan /\ m.num > 0
                THEN sweepK(e, f, o, med2, m, KFirst10, [none |-> TRUE])
                ELSE [none |-> TRUE]
    IN  IF ~best.none THEN best.res ELSE peakFallback(e, f, o)

-----------------------------------------------------------------------------
(* detectHS, first revision: the same sweep, without the peak-direct path *)

detectHS_first(e, f, o) ==
    LET med2 == median2(e)
        m    == spreadOf(e)
        best == IF ~m.nan /\ m.num > 0
                THEN sweepK(e, f, o, med2, m, KFirst10, [none |-> TRUE])
                ELSE [none |-> TRUE]
        fb   == peakFallback(e, f, o)
    IN  IF ~best.none THEN best.res
        ELSE IF fb.ok /\ fb.mode = "peak-fallback" THEN fb
        ELSE Thrown("HS estimation failed")

-----------------------------------------------------------------------------
(* chooseEveryOtherIfDouble: keep every other event when they look doubled *)

\* a test that looks at the median interval only, never at the count hint
looksDouble_intervalOnly(h, f, expectedCount) == median2(Diffs(h)) < f

\* medInt < 0.50 || (expectedCount !== null && hs.length >= expectedCount * 1.6)
looksDouble(h, f, expectedCount) ==
    \/ median2(Diffs(h)) < f
    \/ (expectedCount # Null /\ 10 * Len(h) >= 16 * expectedCount)

chooseEveryOtherIfDouble(h, f, expectedCount) ==
    IF Len(h) < 6 \/ ~looksDouble(h, f, expectedCount) THEN h
    ELSE
      LET candA == EveryNth(h, 2, 0)
          candB == EveryNth(h, 2, 1)
      IN  IF ScoreLeq(scoreHS(candA, f, PlausibleStep, expectedCount),
                      scoreHS(candB, f, PlausibleStep, expectedCount))
          THEN candA ELSE candB

-----------------------------------------------------------------------------
(* detectHS, plain revision: no MAD rescue, merge before the offset,       *)
(* no fallback                                                             *)

candidatePlain(e, f, o, med2, m, k10) ==
    LET raw    == onsetsOf(maskAbove(e, med2, m, k10), MsToSamples(f, o.minBurstMs))
        merged == IF Len(raw) = 0 THEN <<>>
                  ELSE MergeGap(Tail(raw), <<Head(raw)>>, MsToSamples(f, o.minGapMs))
        offset == MsToSamples(f, o.offsetMs)
        h      == SelectSeq([i \in 1..Len(merged) |-> merged[i] + offset],
                            LAMBDA v : v >= 0 /\ v < Len(e))
    IN  IF Len(h) < 2 THEN [none |-> TRUE]
        ELSE [none |-> FALSE,
              res  |-> Returned("onset", k10,
                           [num |-> 10 * m.den * med2 + 2 * k10 * m.num, den |-> 20 * m.den],
                           h, scoreHS(h, f, PlausibleStep, o.expectedCount))]

RECURSIVE sweepPlain(_, _, _, _, _, _, _)
sweepPlain(e, f, o, med2, m, k10, best) ==
    IF k10 > KLast10 THEN best
    ELSE
      LET c == candidatePlain(e, f, o, med2, m, k10)
          b == IF c.none THEN best
               ELSE IF best.none \/ ScoreLess(c.res.score, best.res.score) THEN c
               ELSE best
      IN  sweepPlain(e, f, o, med2, m, k10 + 1, b)

detectHS_plain(e, f, o) ==
    LET med2 == median2(e)
        m4   == mad4(e)
        best == IF IsFinite(m4)
                THEN sweepPlain(e, f, o, med2, [num |-> m4, den |-> 4], KFirst10,
                                [none |-> TRUE])
                ELSE [none |-> TRUE]
    IN  IF best.none THEN Thrown("HS estimation failed") ELSE best.res

-----------------------------------------------------------------------------
(* detectHS, peak revision: one event per burst near the burst's peak,     *)
(* merged by strength, then the every-other fix                            *)

\* plausibleStep and target stride of this revision: [0.6, 2.5] s, 1.0 s
PlausibleStepPeak == [lo |-> 60, hi |-> 250]
TargetStridePeak10 == 10
\* peakBackMs, peakForwardMs
PeakBackMs == 180
PeakForwardMs == 30
\* the k sweep in quarters: 2.0, 2.25, ..., 6.0
KFirst4 == 8
KLast4 == 24

scoreHS_peak(h, f, o) ==
    scoreWith(h, f, PlausibleStepPeak, o.expectedCount, TargetStridePeak10)

\* md = madScalar(env); when NaN or below 1e-12: (p75 - p25)/1.349 on 10 or
\* more finite samples, else 1e-6 (eps)
spreadPeak(e) ==
    LET m4 == IF IsFinite(median2(e)) THEN mad4(e) ELSE NaN
        a  == SortAsc(FiniteOnly(e))
        n  == Len(a)
    IN  IF IsFinite(m4) /\ m4 > 0 THEN [eps |-> FALSE, num |-> m4, den |-> 4]
        ELSE IF n >= 10
        THEN [eps |-> FALSE,
              num |-> 1000 * (a[(3 * n) \div 4 + 1] - a[n \div 4 + 1]), den |-> 1349]
        ELSE [eps |-> TRUE, num |-> 1, den |-> 1000000]

\* mask[i] = env[i] > med + k * (md * 1.4826), k = k4/4
maskPeak(e, med2, m, k4) ==
    [i \in 1..Len(e) |->
        /\ IsFinite(e[i])
        /\ IsFinite(med2)
        /\ IF m.eps THEN 2 * e[i] > med2
           ELSE 40000 * m.den * e[i] > 20000 * m.den * med2 + 2 * k4 * m.num * 7413]

\* the first index of the largest sample in s..e
RECURSIVE peakOf(_, _, _, _)
peakOf(e, i, last, p) ==
    IF i > last THEN p
    ELSE peakOf(e, i + 1, last, IF e[i + 1] > e[p + 1] THEN i ELSE p)

\* the first index of the largest slope env[i] - env[i-1] in w0..w1; w0 when empty
RECURSIVE maxSlopeAt(_, _, _, _)
maxSlopeAt(e, i, w1, bestI) ==
    IF i > w1 THEN bestI
    ELSE maxSlopeAt(e, i + 1, w1,
             IF e[i + 1] - e[i] > e[bestI + 1] - e[bestI] THEN i ELSE bestI)

hsAroundPeak(e, f, segStart, segEnd, peakIdx) ==
    LET w0 == Max2(segStart + 1, peakIdx - MsToSamples(f, PeakBackMs))
        w1 == Min2(segEnd - 1, peakIdx + MsToSamples(f, PeakForwardMs))
    IN  IF w0 > w1 THEN w0 ELSE maxSlopeAt(e, w0 + 1, w1, w0)

\* keep the stronger of two events closer than minGap; hp = <<index, strength>>
RECURSIVE mergeByMinGap(_, _, _)
mergeByMinGap(hp, out, minGap) ==
    IF hp = <<>> THEN out
    ELSE IF out = <<>> THEN mergeByMinGap(Tail(hp), <<Head(hp)>>, minGap)
    ELSE
      LET x    == Head(hp)
          last == out[Len(out)]
      IN  IF x[1] - last[1] < minGap
          THEN mergeByMinGap(Tail(hp),
                   IF x[2] > last[2] THEN [out EXCEPT ![Len(out)] = x] ELSE out, minGap)
          ELSE mergeByMinGap(Tail(hp), Append(out, x), minGap)

RECURSIVE InsertPair(_, _)
InsertPair(x, s) ==
    IF s = <<>> THEN <<x>>
    ELSE IF x[1] < Head(s)[1] THEN <<x>> \o s
    ELSE <<Head(s)>> \o InsertPair(x, Tail(s))

RECURSIVE SortPairs(_)
SortPairs(s) ==
    IF s = <<>> THEN <<>>
    ELSE InsertPair(s[Len(s)], SortPairs(SubSeq(s, 1, Len(s) - 1)))

chooseEveryOtherIfDouble_peak(h, f, o) ==
    IF Len(h) < 6 \/ ~looksDouble(h, f, o.expectedCount) THEN h
    ELSE
      LET candA == EveryNth(h, 2, 0)
          candB == EveryNth(h, 2, 1)
      IN  IF ScoreLeq(scoreHS_peak(candA, f, o), scoreHS_peak(candB, f, o))
          THEN candA ELSE candB

candidatePeak(e, f, o, med2, m, k4) ==
    LET minBurst == Max2(1, MsToSamples(f, o.minBurstMs))
        minGap   == Max2(1, MsToSamples(f, o.minGapMs))
        offset   == MsToSamples(f, o.offsetMs)
        \* segments with the end inclusive
        segs     == SelectSeq(risingEdges(maskPeak(e, med2, m, k4)),
                        LAMBDA sg : sg[2] - sg[1] >= minBurst)
        ev       == [j \in 1..Len(segs) |->
                        LET sg == segs[j]
                            p  == peakOf(e, sg[1], sg[2] - 1, sg[1])
                        IN  <<hsAroundPeak(e, f, sg[1], sg[2] - 1, p) + offset, e[p + 1]>>]
        inside   == SelectSeq(ev, LAMBDA x : x[1] >= 0 /\ x[1] < Len(e))
        merged   == mergeByMinGap(SortPairs(inside), <<>>, minGap)
        h        == chooseEveryOtherIfDouble_peak(
                        [j \in 1..Len(merged) |-> merged[j][1]], f, o)
    IN  IF Len(segs) = 0 \/ Len(h) < 2 THEN [none |-> TRUE]
        ELSE [none |-> FALSE,
              res  |-> Returned("peak", k4, [med2 |-> med2, k4 |-> k4, md |-> m],
                                h, scoreHS_peak(h, f, o))]

RECURSIVE sweepPeak(_, _, _, _, _, _, _)
sweepPeak(e, f, o, med2, m, k4, best) ==
    IF k4 > KLast4 THEN best
    ELSE
      LET c == candidatePeak(e, f, o, med2, m, k4)
          b == IF c.none THEN best
               ELSE IF best.none \/ ScoreLess(c.res.score, best.res.score) THEN c
               ELSE best
      IN  sweepPeak(e, f, o, med2, m, k4 + 1, b)

detectHS_peak(e, f, o) ==
    LET best == sweepPeak(e, f, o, median2(e), spreadPeak(e), KFirst4, [none |-> TRUE])
    IN  IF best.none THEN Thrown("HS estimation failed (no cycle)") ELSE best.res

-----------------------------------------------------------------------------
(* Inputs *)

\* longest envelope enumerated sample by sample
MaxLen == 3
\* a burst on a flat baseline: zeros, then a core of non-zero samples, then zeros
MaxLead == 4
MaxCore == 4
\* longest all-zero / all-NaN envelope
MaxFlatLen == 11

Amplitudes == {0, 1, 2}
Samples == Amplitudes \cup {NaN}

SeqsOver(S, lo, hi) == UNION {[1..n -> S] : n \in lo..hi}

Zeros(n) == [i \in 1..n |-> 0]

ShortEnvs == SeqsOver(Samples, 1, MaxLen)
BurstEnvs ==
    {Zeros(a) \o core \o Zeros(b) :
        a \in {1, MaxLead}, core \in SeqsOver(Amplitudes \ {0}, 2, MaxCore), b \in {0, 1}}
FlatEnvs == {[i \in 1..n |-> v] : n \in 1..MaxFlatLen, v \in {0, NaN}}

\* length of the envelopes that carry a train of bursts
PipeLen == 12
\* an envelope of n samples, flat but for one-sample bursts at the slots,
\* of amplitude 1 (odd slots) or 2 (even slots)
Train(n, slots) == [i \in 1..n |-> IF (i - 1) \in slots THEN 1 + (i % 2) ELSE 0]
\* weak and strong bursts: the low thresholds of the sweep catch all five,
\* the high ones the two strong bursts only
TrainEnvs == {Train(PipeLen, {1, 4, 6, 9, 11})}

Envelopes == ShortEnvs \cup BurstEnvs \cup FlatEnvs \cup TrainEnvs

SampleRates == {4}

DetectOpts ==
    [expectedCount : {Null, 2}, minBurstMs : {0, 500},
     minGapMs : {0, 500}, offsetMs : {0, 250}]

NoOpts == [expectedCount |-> Null, minBurstMs |-> 0, minGapMs |-> 0, offsetMs |-> 0]
NoExt == [used |-> FALSE]
NoResult == [ok |-> FALSE, error |-> "not run"]

\* the state object before any run: parsed1, parsed2, result1, result2: null
NoPipelineResult == [none |-> TRUE]
NoState == [file1 |-> FALSE, file2 |-> FALSE, parsed1 |-> Null, parsed2 |-> Null,
            result1 |-> NoPipelineResult,
            result2 |-> NoPipelineResult, hsSource |-> "", msg |-> "",
            isErr |-> FALSE]

-----------------------------------------------------------------------------
(* Specification SpecDetect: detectHS on an envelope *)

InitDetect ==
    /\ pc = "input"
    /\ env \in Envelopes
    /\ fs \in SampleRates
    /\ opts \in DetectOpts
    /\ hs = <<>>
    /\ ext = NoExt
    /\ result = NoResult
    /\ env2 = <<>>
    /\ state = NoState

DetectHS ==
    /\ pc = "input"
    /\ pc' = "detectHS"
    /\ result' = detectHS(env, fs, opts)
    /\ UNCHANGED <<env, env2, fs, opts, hs, ext, state>>

DetectHS_first ==
    /\ pc = "input"
    /\ pc' = "detectHS_first"
    /\ result' = detectHS_first(env, fs, opts)
    /\ UNCHANGED <<env, env2, fs, opts, hs, ext, state>>

DetectHS_plain ==
    /\ pc = "input"
    /\ pc' = "detectHS_plain"
    /\ result' = detectHS_plain(env, fs, opts)
    /\ UNCHANGED <<env, env2, fs, opts, hs, ext, state>>

DetectHS_peak ==
    /\ pc = "input"
    /\ pc' = "detectHS_peak"
    /\ result' = detectHS_peak(env, fs, opts)
    /\ UNCHANGED <<env, env2, fs, opts, hs, ext, state>>

NextDetect == DetectHS \/ DetectHS_first \/ DetectHS_plain \/ DetectHS_peak

SpecDetect == InitDetect /\ [][NextDetect]_vars

-----------------------------------------------------------------------------
(* Claims on detectHS, checked under SpecDetect *)

DetectDone == pc \in {"detectHS", "detectHS_first", "detectHS_plain", "detectHS_peak"}

\* minGap = round(fs * minGapMs / 1000)
MinGapOf == MsToSamples(fs, opts.minGapMs)

IsFlat(e) == (\A i \in 1..Len(e) : e[i] = 0) \/ (\A i \in 1..Len(e) : e[i] = NaN)

DetectionFailures == {"HS estimation failed", "HS estimation failed (no cycle)"}

\* C1: every event sequence detectHS returns is strictly ascending and its
\* consecutive indices differ by at least minGap, for every parameter setting,
\* a minGap of 0 included.
C1_StrictlyAscendingMinGap ==
    (DetectDone /\ result.ok) =>
        \A i \in 1..(Len(result.hs) - 1) :
            /\ result.hs[i] < result.hs[i + 1]
            /\ result.hs[i + 1] - result.hs[i] >= MinGapOf

\* C2, as stated: consecutive events are strictly more than minGap samples
\* apart, hs[i] < hs[i+1] - minGap.
C2_MoreThanMinGap ==
    (DetectDone /\ result.ok) =>
        \A i \in 1..(Len(result.hs) - 1) :
            result.hs[i] < result.hs[i + 1] - MinGapOf

\* C2, amended: consecutive events are at least minGap samples apart,
\* hs[i] <= hs[i+1] - minGap.
C2_AtLeastMinGap ==
    (DetectDone /\ result.ok) =>
        \A i \in 1..(Len(result.hs) - 1) :
            result.hs[i] <= result.hs[i + 1] - MinGapOf

\* two returned events exactly minGap > 0 samples apart
C2_Witness ==
    /\ DetectDone
    /\ result.ok
    /\ MinGapOf > 0
    /\ \E i \in 1..(Len(result.hs) - 1) : result.hs[i + 1] - result.hs[i] = MinGapOf

\* C4: an all-zero envelope and an all-NaN envelope make detectHS fail with
\* its detection-failure error; no result is returned for them.
C4_FlatEnvelopeFails ==
    (DetectDone /\ IsFlat(env)) =>
        (~result.ok /\ result.error \in DetectionFailures)

\* a flat envelope long enough for the percentile rescue of the MAD was refused
C4_Witness ==
    /\ pc = "detectHS_peak"
    /\ IsFlat(env)
    /\ Len(env) >= 10
    /\ ~result.ok

\* C5: detectHS returns a result holding at least 2 events, each an index
\* into the envelope, or fails with its detection-failure error.
C5_TwoEventsOrFailure ==
    DetectDone =>
        IF result.ok
        THEN /\ Len(result.hs) >= 2
             /\ \A i \in 1..Len(result.hs) :
                    result.hs[i] >= 0 /\ result.hs[i] < Len(env)
        ELSE result.error \in DetectionFailures

\* the peak-direct path returned a result, and it holds 2 events
C5_Witness ==
    /\ pc = "detectHS"
    /\ result.ok
    /\ result.mode = "peak-direct"
    /\ Len(result.hs) >= 2

-----------------------------------------------------------------------------
(* percentPeak: the envelope as a percentage of its reference value.  A    *)
(* percentage is kept as the exact fraction 100 * env[i] / ref.            *)

NegInfinity == -3

PctNaN == [nan |-> TRUE, num |-> 0, den |-> 1]
Pct(v, ref) == IF IsFinite(v) THEN [nan |-> FALSE, num |-> 100 * v, den |-> ref] ELSE PctNaN

MaxOfSet(S) == CHOOSE m \in S : \A x \in S : x <= m

\* let mx = -Infinity; for (i = s; i < e; i++) if (env[i] > mx) mx = env[i]
spanMax(e, s, t) ==
    LET vals == {e[i + 1] : i \in {j \in s..(t - 1) : j < Len(e) /\ IsFinite(e[j + 1])}}
    IN  IF vals = {} THEN NegInfinity ELSE MaxOfSet(vals)

\* a reference taken over the whole envelope, whatever the events
referenceOf_global(e, h) ==
    IF \E i \in 1..Len(e) : ~IsFinite(e[i]) THEN NaN
    ELSE spanMax(e, 0, Len(e))

referenceOf(e, h) ==
    IF Len(h) >= 2 THEN spanMax(e, h[1], h[Len(h)])
    ELSE IF \E i \in 1..Len(e) : ~IsFinite(e[i]) THEN NaN
    ELSE spanMax(e, 0, Len(e))

percentPeak(e, h) ==
    LET ref == referenceOf(e, h)
    IN  IF ~IsFinite(ref) \/ ref <= 0
        THEN [ref |-> ref, out |-> [i \in 1..Len(e) |-> PctNaN]]
        ELSE [ref |-> ref, out |-> [i \in 1..Len(e) |-> Pct(e[i], ref)]]

\* the third revision: the peak is the maximum of the whole envelope, and a
\* peak that is not finite or not positive gives zeros: env.map(() => 0)
toPercentPeak(e) ==
    LET peak == IF \E i \in 1..Len(e) : ~IsFinite(e[i]) THEN NaN
                ELSE spanMax(e, 0, Len(e))
    IN  IF ~IsFinite(peak) \/ peak <= 0
        THEN [ref |-> peak, out |-> [i \in 1..Len(e) |-> [nan |-> FALSE, num |-> 0, den |-> 1]]]
        ELSE [ref |-> peak, out |-> [i \in 1..Len(e) |-> Pct(e[i], peak)]]

-----------------------------------------------------------------------------
(* Cycle normalisation.  A value is NaN or an exact fraction num/den, the  *)
(* record percentPeak produces; a standard deviation is kept as the        *)
(* fraction under its square root.                                         *)

RECURSIVE GCD(_, _)
GCD(a, b) == IF b = 0 THEN a ELSE GCD(b, a % b)

\* num/den in lowest terms (num >= 0, den > 0)
Frac(num, den) ==
    LET g == GCD(num, den)
    IN  [nan |-> FALSE, num |-> num \div g, den |-> den \div g]

FracEq(a, b) == (a.nan /\ b.nan) \/ (~a.nan /\ ~b.nan /\ a.num * b.den = b.num * a.den)

\* y0 * (1 - w) + y1 * w  with  w = r / d;  NaN when either end is NaN
lerp(y0, y1, r, d) ==
    IF y0.nan \/ y1.nan THEN PctNaN
    ELSE Frac(y0.num * y1.den * (d - r) + y1.num * y0.den * r, y0.den * y1.den * d)

\* y[i] of a typed array: undefined (NaN in arithmetic) outside it
at(y, i) == IF i >= 0 /\ i < Len(y) THEN y[i + 1] ELSE PctNaN

\* out[i] = a + ((b - a) / (n - 1)) * i; for n = 1 the step is Infinity and
\* out[0] = Infinity * 0 = NaN
linspace(a, b, n) ==
    [i \in 1..n |-> IF n = 1 THEN PctNaN ELSE Frac(a * (n - 1) + (b - a) * (i - 1), n - 1)]

\* one cycle: the segment y[s..e-1] resampled on nPoints points
cycleOf(y, s, e, nPoints) ==
    LET last == (e - s) - 1
        d    == nPoints - 1
    IN  [j \in 1..nPoints |->
            IF d = 0 THEN PctNaN
            ELSE LET i0 == ((j - 1) * last) \div d
                     i1 == Min2(last, i0 + 1)
                 IN  lerp(at(y, s + i0), at(y, s + i1), ((j - 1) * last) % d, d)]

\* the event pairs (positions i, i + 1 of hs) that are not skipped
RECURSIVE keptPairs(_, _, _)
keptPairs(h, i, minLen) ==
    IF i >= Len(h) THEN <<>>
    ELSE IF h[i + 1] <= h[i] + (minLen - 1) THEN keptPairs(h, i + 1, minLen)
    ELSE <<i>> \o keptPairs(h, i + 1, minLen)

\* if (e <= s + 2) continue
MinSegment == 3

normalizeCycles(y, h, nPoints) ==
    LET pairs == keptPairs(h, 1, MinSegment)
    IN  [grid   |-> linspace(0, 100, nPoints),
         pairs  |-> pairs,
         cycles |-> [c \in 1..Len(pairs) |->
                        cycleOf(y, h[pairs[c]], h[pairs[c] + 1], nPoints)]]

\* if (e <= s + 5) continue
MinSegment_time == 6

\* interpolateToGrid on the segment's times (evenly sampled, so that sample
\* j of n lies at 100 * j / (n - 1) percent): the grid point k / d * 100
\* falls between samples j and j + 1
RECURSIVE segmentBelow(_, _, _, _)
segmentBelow(j, n, k, d) ==
    IF j < n - 2 /\ (j + 1) * d < k * (n - 1) THEN segmentBelow(j + 1, n, k, d) ELSE j

cycleOf_time(y, s, e, nPoints) ==
    LET n == e - s
        d == nPoints - 1
    IN  [k \in 1..nPoints |->
            IF d = 0 THEN PctNaN
            ELSE LET j == segmentBelow(0, n, k - 1, d)
                 IN  lerp(at(y, s + j), at(y, s + j + 1), (k - 1) * (n - 1) - j * d, d)]

\* the third revision: the grid belongs to each cycle
normalizeCycles_time(y, h, nPoints) ==
    LET pairs == keptPairs(h, 1, MinSegment_time)
    IN  [grid   |-> [k \in 1..nPoints |->
                        IF nPoints = 1 THEN PctNaN ELSE Frac(100 * (k - 1), nPoints - 1)],
         pairs  |-> pairs,
         cycles |-> [c \in 1..Len(pairs) |->
                        cycleOf_time(y, h[pairs[c]], h[pairs[c] + 1], nPoints)]]

FracAdd(a, b) == Frac(a.num * b.den + b.num * a.den, a.den * b.den)
FracSq(a) == Frac(a.num * a.num, a.den * a.den)

RECURSIVE FracSum(_)
FracSum(s) == IF s = <<>> THEN Frac(0, 1) ELSE FracAdd(Head(s), FracSum(Tail(s)))

\* the values of all cycles at grid point j
column(cycles, j) == [i \in 1..Len(cycles) |-> cycles[i][j]]

\* sum over the values of (v - mean)^2, mean = sum / c:  (c * Q - S^2) / c
\* with S the sum and Q the sum of squares; this is the fraction times c
squaredDeviationsTimesCount(vals) ==
    LET c == Len(vals)
        S == FracSum(vals)
        Q == FracSum([i \in 1..c |-> FracSq(vals[i])])
    IN  Frac(c * Q.num * S.den * S.den - S.num * S.num * Q.den, Q.den * S.den * S.den)

\* a divisor of count - 1 in place of count
sdOver_sample(vals) ==
    LET c == Len(vals)
        D == squaredDeviationsTimesCount(vals)
    IN  IF c > 1 THEN Frac(D.num, D.den * c * (c - 1)) ELSE PctNaN

\* sd[j] = c > 1 ? Math.sqrt(s / c) : NaN, as the fraction s / c
sdOver(vals) ==
    LET c == Len(vals)
        D == squaredDeviationsTimesCount(vals)
    IN  IF c > 1 THEN Frac(D.num, D.den * c * c) ELSE PctNaN

\* mean[j] = c > 0 ? s / c : NaN
meanOver(vals) ==
    LET c == Len(vals)
        S == FracSum(vals)
    IN  IF c > 0 THEN Frac(S.num, S.den * c) ELSE PctNaN

meanAndSD(cycles) ==
    IF Len(cycles) = 0 THEN [mean |-> <<>>, sd |-> <<>>]
    ELSE LET m == Len(cycles[1])
             finite(j) == SelectSeq(column(cycles, j), LAMBDA v : ~v.nan)
         IN  [mean |-> [j \in 1..m |-> meanOver(finite(j))],
              sd   |-> [j \in 1..m |-> sdOver(finite(j))]]

\* the third revision: every value enters the sums, a NaN makes them NaN;
\* sd = Math.sqrt(s / Math.max(1, n - 1))
meanStdOfCycles(cycles) ==
    IF Len(cycles) = 0 THEN [none |-> TRUE, mean |-> <<>>, sd |-> <<>>]
    ELSE LET n == Len(cycles)
             m == Len(cycles[1])
             poisoned(j) == \E i \in 1..n : cycles[i][j].nan
             D(j) == squaredDeviationsTimesCount(column(cycles, j))
         IN  [none |-> FALSE,
              mean |-> [j \in 1..m |-> IF poisoned(j) THEN PctNaN
                                       ELSE meanOver(column(cycles, j))],
              sd   |-> [j \in 1..m |-> IF poisoned(j) THEN PctNaN
                                       ELSE Frac(D(j).num, D(j).den * n * Max2(1, n - 1))]]



-----------------------------------------------------------------------------
(* Specification SpecPct: percentPeak on an envelope and its events *)

MaxPctLen == 4
MaxEvents == 3

PctEnvs == SeqsOver(Samples, 1, MaxPctLen)

\* event indices of an envelope of n samples, in ascending order
EventSeqs(n) ==
    {h \in SeqsOver(0..(n - 1), 0, MaxEvents) :
        \A i \in 1..(Len(h) - 1) : h[i] <= h[i + 1]}

InitPct ==
    /\ pc = "input"
    /\ env \in PctEnvs
    /\ hs \in EventSeqs(Len(env))
    /\ fs \in SampleRates
    /\ opts = NoOpts
    /\ ext = NoExt
    /\ result = NoResult
    /\ env2 = <<>>
    /\ state = NoState

PercentPeak ==
    /\ pc = "input"
    /\ pc' = "percentPeak"
    /\ result' = [ok |-> TRUE, envPct |-> percentPeak(env, hs)]
    /\ UNCHANGED <<env, env2, fs, opts, hs, ext, state>>

ToPercentPeak ==
    /\ pc = "input"
    /\ pc' = "toPercentPeak"
    /\ result' = [ok |-> TRUE, envPct |-> toPercentPeak(env)]
    /\ UNCHANGED <<env, env2, fs, opts, hs, ext, state>>

NextPct == PercentPeak \/ ToPercentPeak

SpecPct == InitPct /\ [][NextPct]_vars

-----------------------------------------------------------------------------
(* Claims on percentPeak, checked under SpecPct *)

FiniteEnv == \A i \in 1..Len(env) : IsFinite(env[i])

PctCase ==
    /\ pc = "percentPeak"
    /\ FiniteEnv
    /\ Len(hs) >= 2
    /\ result.envPct.ref > 0

\* the largest percentage over samples s..t is exactly 100
MaxIs100(out, s, t) ==
    /\ \E i \in s..t : ~out[i + 1].nan /\ out[i + 1].num = 100 * out[i + 1].den
    /\ \A i \in s..t : ~out[i + 1].nan /\ out[i + 1].num <= 100 * out[i + 1].den

-----------------------------------------------------------------------------
(* Reconciliation with video events.  Times are whole ticks of TickMs      *)
(* milliseconds; the shift search steps by stepSec = 0.01 s = StepTicks.   *)
(* Event times and the sync range are even tick counts and tolerances are  *)
(* odd ones, so that no comparison |d| <= tolSec is decided by the         *)
(* rounding of the doubles.                                                *)

TickMs == 5
StepTicks == 2

\* state.result1.t: the time of sample i, i / fs at fs = 4 Hz
SampleTicks == 50
tSec(i) == i * SampleTicks

\* two-pointer matching of the sorted times et (shifted) against vt: the
\* positions in et that found a partner
RECURSIVE matchPairs(_, _, _, _, _, _, _)
matchPairs(et, vt, shift, tolSec, i, j, pairs) ==
    IF i > Len(et) \/ j > Len(vt) THEN pairs
    ELSE LET d == (et[i] + shift) - vt[j]
         IN  IF Abs(d) <= tolSec
             THEN matchPairs(et, vt, shift, tolSec, i + 1, j + 1, Append(pairs, i))
             ELSE IF d < -tolSec
             THEN matchPairs(et, vt, shift, tolSec, i + 1, j, pairs)
             ELSE matchPairs(et, vt, shift, tolSec, i, j + 1, pairs)

countMatches(et, vt, shift, tolSec) == matchPairs(et, vt, shift, tolSec, 1, 1, <<>>)

\* for (s = -rangeSec; s <= rangeSec + 1e-9; s += stepSec) ... score > best.score
RECURSIVE scanShifts(_, _, _, _, _, _, _)
scanShifts(et, vt, s, rangeSec, stepSec, tolSec, best) ==
    IF s > rangeSec THEN best
    ELSE LET score == Len(countMatches(et, vt, s, tolSec))
         IN  scanShifts(et, vt, s + stepSec, rangeSec, stepSec, tolSec,
                        IF score > best.score THEN [shift |-> s, score |-> score]
                        ELSE best)

bestShiftMatch(emgTimes, videoTimes, rangeSec, stepSec, tolSec) ==
    IF Len(emgTimes) = 0 \/ Len(videoTimes) = 0 THEN [shift |-> 0, score |-> -1]
    ELSE scanShifts(SortAsc(emgTimes), SortAsc(videoTimes), -rangeSec, rangeSec,
                    stepSec, tolSec, [shift |-> 0, score |-> -1])

\* emgTimes.map((v, k) => ({ v, k })).sort((a, b) => a.v - b.v), a stable sort
RECURSIVE InsertByTime(_, _)
InsertByTime(s, x) ==
    IF s = <<>> THEN <<x>>
    ELSE IF x.v < Head(s).v THEN <<x>> \o s
    ELSE <<Head(s)>> \o InsertByTime(Tail(s), x)

RECURSIVE SortByTime(_)
SortByTime(s) ==
    IF s = <<>> THEN <<>>
    ELSE InsertByTime(SortByTime(SubSeq(s, 1, Len(s) - 1)), s[Len(s)])

\* the positions of hsIdx themselves, in place of the events at them
RECURSIVE KeepAt_positions(_, _, _)
KeepAt_positions(h, keepSet, k) ==
    IF k > Len(h) THEN <<>>
    ELSE IF k \in keepSet THEN <<k - 1>> \o KeepAt_positions(h, keepSet, k + 1)
    ELSE KeepAt_positions(h, keepSet, k + 1)

\* hsIdx.filter((_, k) => keepSet.has(k)), from position k on
RECURSIVE KeepAt(_, _, _)
KeepAt(h, keepSet, k) ==
    IF k > Len(h) THEN <<>>
    ELSE IF k \in keepSet THEN <<h[k]>> \o KeepAt(h, keepSet, k + 1)
    ELSE KeepAt(h, keepSet, k + 1)

keepHsMatchedToVideo(hsIdx, videoEvents, syncRange, tolSec) ==
    LET emgTimes == [k \in 1..Len(hsIdx) |-> tSec(hsIdx[k])]
        found    == bestShiftMatch(emgTimes, videoEvents, syncRange, StepTicks, tolSec)
        et       == SortByTime([k \in 1..Len(hsIdx) |-> [v |-> emgTimes[k], k |-> k]])
        vt       == SortAsc(videoEvents)
        pairs    == matchPairs([i \in 1..Len(et) |-> et[i].v], vt, found.shift,
                               tolSec, 1, 1, <<>>)
        keepSet  == {et[pairs[n]].k : n \in 1..Len(pairs)}
        hsKept   == KeepAt(hsIdx, keepSet, 1)
    IN  [hsKept |-> hsKept, shift |-> found.shift, matched |-> Len(hsKept),
         raw |-> Len(hsIdx), score |-> found.score]

-----------------------------------------------------------------------------
(* Specification SpecSync: keepHsMatchedToVideo on EMG events and video    *)
(* events                                                                  *)

MaxIdx == 4
MaxShift == 4

RECURSIVE AscSeqOf(_)
AscSeqOf(S) ==
    IF S = {} THEN <<>>
    ELSE LET lo == CHOOSE x \in S : \A y \in S : x <= y
         IN  <<lo>> \o AscSeqOf(S \ {lo})

\* the event indices of an envelope, ascending
HsSeqs == {AscSeqOf(S) : S \in SUBSET (0..MaxIdx)}

\* shifts on the search grid
GridShifts == {d \in (-MaxShift)..MaxShift : d % StepTicks = 0}

Tolerances == {1, 5}
SyncRanges == {MaxShift, 2 * MaxShift}

\* the events of V seen by the video, d ticks later
VideoOf(V, d) == LET h == AscSeqOf(V) IN [k \in 1..Len(h) |-> tSec(h[k]) + d]

InitSync ==
    /\ pc = "input"
    /\ env = <<>>
    /\ fs \in SampleRates
    /\ opts = NoOpts
    /\ hs \in HsSeqs
    /\ ext \in {[used |-> TRUE, videoEvents |-> VideoOf(V, d), tolSec |-> tol,
                 syncRange |-> range] :
                   V \in SUBSET (0..MaxIdx), d \in GridShifts,
                   tol \in Tolerances, range \in SyncRanges}
    /\ \A k \in 1..Len(ext.videoEvents) : ext.videoEvents[k] >= 0
    /\ result = NoResult
    /\ env2 = <<>>
    /\ state = NoState

KeepHsMatchedToVideo ==
    /\ pc = "input"
    /\ pc' = "keepHsMatchedToVideo"
    /\ result' = [ok |-> TRUE,
                  sync |-> keepHsMatchedToVideo(hs, ext.videoEvents, ext.syncRange,
                                                ext.tolSec)]
    /\ UNCHANGED <<env, env2, fs, opts, hs, ext, state>>

NextSync == KeepHsMatchedToVideo

SpecSync == InitSync /\ [][NextSync]_vars

-----------------------------------------------------------------------------
(* Claims on the reconciliation, checked under SpecSync *)

SyncDone == pc = "keepHsMatchedToVideo"

\* the video events are the EMG events, all of them, d ticks later
ShiftedBy(d) ==
    /\ Len(hs) >= 1
    /\ ext.videoEvents = [k \in 1..Len(hs) |-> tSec(hs[k]) + d]

\* C6: when the video events are the EMG events plus a constant shift d on
\* the 10 ms grid inside the sync range, the returned shift is within 10 ms
\* of d and every EMG event is matched, for every tolerance.
C6_ShiftWithinOneStep ==
    SyncDone =>
        \A d \in GridShifts :
            ShiftedBy(d) =>
                /\ Abs(result.sync.shift - d) <= StepTicks
                /\ result.sync.matched = Len(hs)

RECURSIVE IsSubSeq(_, _)
IsSubSeq(a, b) ==
    IF a = <<>> THEN TRUE
    ELSE IF b = <<>> THEN FALSE
    ELSE IF Head(a) = Head(b) THEN IsSubSeq(Tail(a), Tail(b))
    ELSE IsSubSeq(a, Tail(b))

\* C7: the events kept by keepHsMatchedToVideo are a sub-sequence of the EMG
\* events it was given: same relative order, nothing that was not given.
C7_KeptIsSubSequence ==
    SyncDone => IsSubSeq(result.sync.hsKept, hs)

\* some events were kept and some were dropped
C7_Witness ==
    /\ SyncDone
    /\ Len(result.sync.hsKept) >= 2
    /\ Len(result.sync.hsKept) < Len(hs)
    /\ result.sync.hsKept[1] # hs[1]

-----------------------------------------------------------------------------
(* run: the reference events of both channels, from the detector's events  *)
(* of channel 1                                                            *)

\* if (matched >= 4)
MinMatched == 4

\* hsRef.filter((i) => state.result1.t[i] >= baselineSec)
afterBaseline(h, baselineSec) == SelectSeq(h, LAMBDA i : tSec(i) >= baselineSec)

\* const useVideo = checked && Array.isArray(videoEvents) && videoEvents.length >= 4
useVideo(x) == x.used /\ Len(x.videoEvents) >= 4

\* a refinement that accepts the video with one match fewer than MinMatched
refineReference_three(h, f, expTA, x) ==
    LET hsRef == afterBaseline(h, x.baselineSec)
    IN  IF useVideo(x)
        THEN LET sync == keepHsMatchedToVideo(hsRef,
                             SelectSeq(x.videoEvents, LAMBDA v : v >= x.baselineSec),
                             x.syncRange, x.tolSec)
             IN  IF sync.matched >= MinMatched - 1
                 THEN [hs |-> sync.hsKept, hsSource |-> "TA+Video"]
                 ELSE [hs |-> chooseEveryOtherIfDouble(hsRef, f, expTA),
                       hsSource |-> "TA(every other)"]
        ELSE LET picked == chooseEveryOtherIfDouble(hsRef, f, expTA)
             IN  [hs |-> picked,
                  hsSource |-> IF Len(picked) # Len(h) THEN "TA(every other)"
                               ELSE "TA(MAD)"]

refineReference(h, f, expTA, x) ==
    LET hsRef == afterBaseline(h, x.baselineSec)
    IN  IF useVideo(x)
        THEN LET sync == keepHsMatchedToVideo(hsRef,
                             SelectSeq(x.videoEvents, LAMBDA v : v >= x.baselineSec),
                             x.syncRange, x.tolSec)
             IN  IF sync.matched >= MinMatched
                 THEN [hs |-> sync.hsKept, hsSource |-> "TA+Video"]
                 ELSE [hs |-> chooseEveryOtherIfDouble(hsRef, f, expTA),
                       hsSource |-> "TA(every other)"]
        ELSE LET picked == chooseEveryOtherIfDouble(hsRef, f, expTA)
             IN  [hs |-> picked,
                  hsSource |-> IF Len(picked) # Len(h) THEN "TA(every other)"
                               ELSE "TA(MAD)"]

\* the largest nPoints drawn
MaxPoints == 3

\* computePipeline from the detection on: percentPeak, normalizeCycles,
\* meanAndSD and the returned object
pipelineResult(envRaw, det, nPoints) ==
    With(percentPeak(envRaw, det.hs).out, LAMBDA envPct :
    With(normalizeCycles(envPct, det.hs, nPoints), LAMBDA cyc :
    With(meanAndSD(cyc.cycles), LAMBDA ms :
        [none |-> FALSE, envRaw |-> envRaw, envPct |-> envPct, hs |-> det.hs,
         k |-> det.k, thr |-> det.thr, grid |-> cyc.grid, cycles |-> cyc.cycles,
         mean |-> ms.mean, sd |-> ms.sd])))

\* a channel that keeps the events detected on itself
applyHsToExistingResult_keepOwn(res, h, nPoints) == res

\* { ...res, hs: hs2, envPct, grid, cycles, mean, sd }
applyHsToExistingResult(res, h, nPoints) ==
    With(SelectSeq(h, LAMBDA i : i >= 0 /\ i < Len(res.envRaw)), LAMBDA hs2 :
    With(percentPeak(res.envRaw, hs2).out, LAMBDA envPct :
    With(normalizeCycles(envPct, hs2, nPoints), LAMBDA cyc :
    With(meanAndSD(cyc.cycles), LAMBDA ms :
        [res EXCEPT !.hs = hs2, !.envPct = envPct, !.grid = cyc.grid,
                    !.cycles = cyc.cycles, !.mean = ms.mean, !.sd = ms.sd]))))

-----------------------------------------------------------------------------
(* Specification SpecRun: run from the detector's events on *)

MaxRunIdx == 6

\* const expTA = (steps > 0) ? Math.floor(steps / 2) : null
expTAOf(steps) == IF steps > 0 THEN steps \div 2 ELSE Null
StepCounts == {0, 4}

RunEnv == [i \in 1..(MaxRunIdx + 1) |-> 1 + (i % 2)]

RunVideoSets == {0..k : k \in (-1)..MaxRunIdx} \cup {1..MaxRunIdx}

InitRun ==
    /\ pc = "input"
    /\ env = RunEnv
    /\ fs \in SampleRates
    /\ opts \in {[NoOpts EXCEPT !.expectedCount = expTAOf(steps)] : steps \in StepCounts}
    /\ hs \in {AscSeqOf(S) : S \in SUBSET (0..MaxRunIdx)}
    /\ ext \in {[used |-> u, videoEvents |-> VideoOf(V, d), tolSec |-> 5,
                 syncRange |-> MaxShift, baselineSec |-> b] :
                   u \in BOOLEAN, V \in RunVideoSets, d \in {0, StepTicks},
                   b \in {0, SampleTicks}}
    /\ result = NoResult
    /\ env2 = <<>>
    /\ state = NoState

Run ==
    /\ pc = "input"
    /\ pc' = "run"
    /\ LET ref == refineReference(hs, fs, opts.expectedCount, ext)
           res == applyHsToExistingResult(
                      pipelineResult(env, [hs |-> hs, k |-> Null, thr |-> Null], MaxPoints),
                      ref.hs, MaxPoints)
       IN  result' = [ok |-> TRUE, hs |-> res.hs, envPct |-> res.envPct,
                      hsSource |-> ref.hsSource]
    /\ UNCHANGED <<env, env2, fs, opts, hs, ext, state>>

NextRun == Run

SpecRun == InitRun /\ [][NextRun]_vars

-----------------------------------------------------------------------------
(* Claims on run, checked under SpecRun *)

RunDone == pc = "run"

BaselineEvents == afterBaseline(hs, ext.baselineSec)

VideoSync ==
    keepHsMatchedToVideo(BaselineEvents,
                         SelectSeq(ext.videoEvents, LAMBDA v : v >= ext.baselineSec),
                         ext.syncRange, ext.tolSec)

\* C8: with video assistance active, fewer than 4 matched EMG events make
\* the reference events the output of chooseEveryOtherIfDouble on the
\* baseline-filtered detector events; otherwise the reference events are
\* exactly the matched EMG events.
C8_FallbackBelowFourMatches ==
    (RunDone /\ useVideo(ext)) =>
        IF VideoSync.matched < 4
        THEN result.hs = chooseEveryOtherIfDouble(BaselineEvents, fs, opts.expectedCount)
        ELSE result.hs = VideoSync.hsKept

\* three matches were not enough and the fallback halved the events
C8_Witness ==
    /\ RunDone
    /\ useVideo(ext)
    /\ VideoSync.matched = 3
    /\ Len(BaselineEvents) >= 6
    /\ Len(result.hs) = 3
    /\ result.hs # VideoSync.hsKept

-----------------------------------------------------------------------------
(* Stride subsequences of the third revision: chooseOddEven and            *)
(* chooseStrideSubseq, scored by  std(intervals) + penalties               *)

CountTol == 2

NoChoice == [none |-> TRUE, name |-> "", hs |-> <<>>]
Choice(name, h) == [none |-> FALSE, name |-> name, hs |-> h]

\* sd + pen of a subsequence of 3 or more events.  stepW weighs the distance
\* of the (upper) median interval from plausibleStep; the count penalty is
\* far0 + farK * diff outside countTol and near10/10 * diff inside it.
subseqScore(seq, f, plausible, expectedCount, stepW, far0, farK, near10) ==
    LET d    == Diffs(seq)
        n    == Len(d)
        S    == SumSeq(d)
        Q    == n * SumSq(d) - S * S
        med  == SortAsc(d)[(n \div 2) + 1]
        step == IF 100 * med < plausible.lo * f
                THEN 10 * stepW * (plausible.lo * f - 100 * med)
                ELSE IF 100 * med > plausible.hi * f
                THEN 10 * stepW * (100 * med - plausible.hi * f)
                ELSE 0
        diff == IF expectedCount = Null THEN 0 ELSE Abs(Len(seq) - expectedCount)
        cnt  == IF expectedCount = Null \/ expectedCount <= 0 THEN 0
                ELSE IF diff > CountTol THEN 1000 * f * (far0 + farK * diff)
                ELSE 100 * f * near10 * diff
    IN  [inf |-> FALSE, num |-> step + cnt, den |-> 1000 * f,
         rad |-> Q * n * (n - 1), div |-> n * (n - 1) * f]

scoreOddEven(seq, f, expectedCount) ==
    subseqScore(seq, f, PlausibleStepPeak, expectedCount, 2, 60, 8, 6)

chooseOddEven(h, f, expectedCount) ==
    LET odd     == EveryNth(h, 2, 0)
        even    == EveryNth(h, 2, 1)
        subseqs == IF Len(h) >= 4
                   THEN (IF Len(odd) >= 3 THEN <<Choice("odd", odd)>> ELSE <<>>)
                        \o (IF Len(even) >= 3 THEN <<Choice("even", even)>> ELSE <<>>)
                   ELSE <<>>
    IN  IF Len(subseqs) = 0 THEN NoChoice
        ELSE IF Len(subseqs) = 2
                /\ ScoreLess(scoreOddEven(subseqs[2].hs, f, expectedCount),
                             scoreOddEven(subseqs[1].hs, f, expectedCount))
        THEN subseqs[2]
        ELSE subseqs[1]

scoreStride(seq, f, expectedCount) ==
    IF Len(seq) < 3 THEN Infinity
    ELSE subseqScore(seq, f, PlausibleStepPeak, expectedCount, 3, 100, 10, 5)

\* name: `every${m}@${off}`
strideName(m, off) ==
    IF m = 2 THEN (IF off = 0 THEN "every2@0" ELSE "every2@1")
    ELSE IF off = 0 THEN "every3@0"
    ELSE IF off = 1 THEN "every3@1"
    ELSE "every3@2"

\* the (m, off) pairs in the order of the two loops
strideCandidates(n, expectedCount) ==
    (IF 10 * n >= 16 * expectedCount THEN <<<<2, 0>>, <<2, 1>>>> ELSE <<>>)
    \o (IF 10 * n >= 26 * expectedCount THEN <<<<3, 0>>, <<3, 1>>, <<3, 2>>>> ELSE <<>>)

RECURSIVE bestStride(_, _, _, _, _, _)
bestStride(h, f, expectedCount, cands, best, bestScore) ==
    IF cands = <<>> THEN best
    ELSE LET m   == Head(cands)[1]
             off == Head(cands)[2]
             seq == EveryNth(h, m, off)
             sc  == scoreStride(seq, f, expectedCount)
         IN  IF ScoreLess(sc, bestScore)
             THEN bestStride(h, f, expectedCount, Tail(cands),
                             Choice(strideName(m, off), seq), sc)
             ELSE bestStride(h, f, expectedCount, Tail(cands), best, bestScore)

chooseStrideSubseq(h, f, expectedCount) ==
    IF expectedCount = Null \/ expectedCount <= 0 THEN NoChoice
    ELSE IF Len(h) < expectedCount + Max2(1, CountTol) THEN NoChoice
    ELSE
      LET best == bestStride(h, f, expectedCount,
                             strideCandidates(Len(h), expectedCount), NoChoice, Infinity)
      IN  IF best.none THEN NoChoice
          ELSE IF Abs(Len(best.hs) - expectedCount) < Abs(Len(h) - expectedCount)
          THEN best
          ELSE NoChoice

\* if (choice) hs = choice.hs
replacedBy(h, choice) == IF choice.none THEN h ELSE choice.hs

-----------------------------------------------------------------------------
(* Specification SpecDouble: the doubled-detection resolutions on a        *)
(* candidate event sequence                                                *)

MaxDoubleEvents == 7
MaxStep == 3

\* candidate events: the first at sample 0, then steps of 1..MaxStep samples
RECURSIVE FromSteps(_, _)
FromSteps(first, steps) ==
    IF steps = <<>> THEN <<first>>
    ELSE <<first>> \o FromSteps(first + Head(steps), Tail(steps))

Candidates == {FromSteps(0, st) : st \in SeqsOver(1..MaxStep, 0, MaxDoubleEvents - 1)}

ExpectedCounts == {Null, 2, 4, 6}

InitDouble ==
    /\ pc = "input"
    /\ env = <<>>
    /\ fs \in SampleRates
    /\ opts \in {[NoOpts EXCEPT !.expectedCount = c] : c \in ExpectedCounts}
    /\ hs \in Candidates
    /\ ext = NoExt
    /\ result = NoResult
    /\ env2 = <<>>
    /\ state = NoState

ChooseEveryOtherIfDouble ==
    /\ pc = "input"
    /\ pc' = "chooseEveryOtherIfDouble"
    /\ result' = [ok |-> TRUE,
                  hs |-> chooseEveryOtherIfDouble(hs, fs, opts.expectedCount)]
    /\ UNCHANGED <<env, env2, fs, opts, hs, ext, state>>

ChooseEveryOtherIfDouble_peak ==
    /\ pc = "input"
    /\ pc' = "chooseEveryOtherIfDouble_peak"
    /\ result' = [ok |-> TRUE, hs |-> chooseEveryOtherIfDouble_peak(hs, fs, opts)]
    /\ UNCHANGED <<env, env2, fs, opts, hs, ext, state>>

\* const choice = chooseOddEven(...); if (choice) hs = choice.hs
ChooseOddEven ==
    /\ pc = "input"
    /\ pc' = "chooseOddEven"
    /\ result' = [ok |-> TRUE,
                  hs |-> replacedBy(hs, chooseOddEven(hs, fs, opts.expectedCount))]
    /\ UNCHANGED <<env, env2, fs, opts, hs, ext, state>>

\* const strideChoice = chooseStrideSubseq(...); if (strideChoice) hs = strideChoice.hs
ChooseStrideSubseq ==
    /\ pc = "input"
    /\ pc' = "chooseStrideSubseq"
    /\ result' = [ok |-> TRUE,
                  hs |-> replacedBy(hs, chooseStrideSubseq(hs, fs, opts.expectedCount))]
    /\ UNCHANGED <<env, env2, fs, opts, hs, ext, state>>

NextDouble ==
    \/ ChooseEveryOtherIfDouble
    \/ ChooseEveryOtherIfDouble_peak
    \/ ChooseOddEven
    \/ ChooseStrideSubseq

SpecDouble == InitDouble /\ [][NextDouble]_vars

-----------------------------------------------------------------------------
(* Claims on the doubled-detection resolutions, checked under SpecDouble *)

DoubleDone ==
    pc \in {"chooseEveryOtherIfDouble", "chooseEveryOtherIfDouble_peak",
            "chooseOddEven", "chooseStrideSubseq"}

CountDiff(h) == Abs(Len(h) - opts.expectedCount)

\* C9: a doubled-detection resolution replaces the candidate events only if
\* the replacement's |count - expectedCount| is strictly smaller than the
\* candidate's; otherwise, and whenever no expectedCount is supplied, the
\* candidate is kept unchanged.
C9_ReplacesOnlyIfCloser ==
    (DoubleDone /\ result.hs # hs) =>
        (opts.expectedCount # Null /\ CountDiff(result.hs) < CountDiff(hs))

EveryOtherDone == pc \in {"chooseEveryOtherIfDouble", "chooseEveryOtherIfDouble_peak"}

ScoreOfPath(h) ==
    IF pc = "chooseEveryOtherIfDouble"
    THEN scoreHS(h, fs, PlausibleStep, opts.expectedCount)
    ELSE scoreHS_peak(h, fs, opts)

\* C10: given n >= 6 events and an expectedCount with n >= 1.6 * expectedCount,
\* chooseEveryOtherIfDouble returns the even-indexed or the odd-indexed
\* subsequence, the lower-scoring one and the even-indexed one on a tie, so
\* the result has ceil(n/2) or floor(n/2) events.
C10_HalvesOnCountHint ==
    (/\ EveryOtherDone
     /\ Len(hs) >= 6
     /\ opts.expectedCount # Null
     /\ 10 * Len(hs) >= 16 * opts.expectedCount) =>
        LET evens == [j \in 1..((Len(hs) + 1) \div 2) |-> hs[2 * j - 1]]
            odds  == [j \in 1..(Len(hs) \div 2) |-> hs[2 * j]]
        IN  /\ result.hs \in {evens, odds}
            /\ (result.hs = odds) => ScoreLess(ScoreOfPath(odds), ScoreOfPath(evens))
            /\ (result.hs = evens) => ~ScoreLess(ScoreOfPath(odds), ScoreOfPath(evens))
            /\ Len(result.hs) \in {(Len(hs) + 1) \div 2, Len(hs) \div 2}

\* seven events whose median interval is not short (0.5 s or more), halved
\* on the count hint alone, the odd-indexed three winning
C10_Witness ==
    /\ EveryOtherDone
    /\ Len(hs) = 7
    /\ opts.expectedCount # Null
    /\ 10 * Len(hs) >= 16 * opts.expectedCount
    /\ median2(Diffs(hs)) >= fs
    /\ Len(result.hs) = 3

-----------------------------------------------------------------------------
(* The whole run: both channels through computePipeline, the reference     *)
(* events of channel 1 applied to both, the try/catch around it all.       *)
(* The front end (demean, filters, rectification, moving RMS) is left to   *)
(* the envelope each channel arrives with.                                 *)

computePipeline(e, f, o, expectedCount, nPoints) ==
    With(detectHS(e, f, [o EXCEPT !.expectedCount = expectedCount]), LAMBDA det :
        IF det.ok THEN [thrown |-> FALSE, res |-> pipelineResult(e, det, nPoints)]
        ELSE [thrown |-> TRUE, error |-> det.error])

\* what can fail around the analysis: reading a CSV, drawing a plot
Faults == {"none", "parse", "plot"}

Threw(st, error) == [thrown |-> TRUE, error |-> error, state |-> st]

\* the body of the try block, up to its first throw; st is the state object
\* as the handler finds it
runBody(st, e1, e2, f, o, x, fault) ==
    IF ~st.file1 \/ ~st.file2
    THEN [thrown |-> FALSE, error |-> "",
          state |-> [st EXCEPT !.msg = "select two CSV files", !.isErr = TRUE]]
    ELSE IF fault = "parse" THEN Threw(st, "CSV could not be read")
    ELSE
      With([st EXCEPT !.parsed1 = e1, !.parsed2 = e2], LAMBDA sp :
      With(computePipeline(e1, f, o, o.expectedCount, o.nPoints), LAMBDA r1 :
        IF r1.thrown THEN Threw(sp, r1.error)
        ELSE
          With(computePipeline(e2, f, o, Null, o.nPoints), LAMBDA r2 :
            IF r2.thrown THEN Threw([sp EXCEPT !.result1 = r1.res], r2.error)
            ELSE
              With(refineReference(r1.res.hs, f, o.expectedCount, x), LAMBDA ref :
              With([sp EXCEPT
                      !.result1 = applyHsToExistingResult(r1.res, ref.hs, o.nPoints),
                      !.result2 = applyHsToExistingResult(r2.res, ref.hs, o.nPoints),
                      !.hsSource = ref.hsSource], LAMBDA st2 :
                IF fault = "plot" THEN Threw(st2, "plot could not be drawn")
                ELSE [thrown |-> FALSE, error |-> "",
                      state |-> [st2 EXCEPT !.msg = "done", !.isErr = FALSE]])))))

\* a run whose errors are not caught
run_uncaught(st, e1, e2, f, o, x, fault) ==
    With(runBody(st, e1, e2, f, o, x, fault), LAMBDA body :
        [state |-> body.state, rejected |-> body.thrown])

\* a run that keeps the results an earlier run left in the state object
run_keepResults(st, e1, e2, f, o, x, fault) ==
    With(runBody(st, e1, e2, f, o, x, fault), LAMBDA body :
        IF body.thrown
        THEN [state |-> [body.state EXCEPT !.msg = body.error, !.isErr = TRUE],
              rejected |-> FALSE]
        ELSE [state |-> [body.state EXCEPT
                            !.result1 = IF st.result1.none THEN @ ELSE st.result1,
                            !.result2 = IF st.result2.none THEN @ ELSE st.result2],
              rejected |-> FALSE])

\* try { ... } catch (e) { console.error(e); setMsg(String(e?.message || e), true); }
run(st, e1, e2, f, o, x, fault) ==
    With(runBody(st, e1, e2, f, o, x, fault), LAMBDA body :
        IF body.thrown
        THEN [state |-> [body.state EXCEPT !.msg = body.error, !.isErr = TRUE],
              rejected |-> FALSE]
        ELSE [state |-> body.state, rejected |-> FALSE])

-----------------------------------------------------------------------------
(* Specification SpecPipeline: files are chosen, run is clicked, again and *)
(* again                                                                   *)

Channel1Envs == {Train(PipeLen, S) : S \in {{1, 4, 8}, {1, 4, 7, 10}}}
Channel2Envs == {Train(PipeLen, {}), Train(PipeLen - 4, {2, 5})}

PipelineOpts ==
    {[expectedCount |-> expTAOf(steps), minBurstMs |-> 0, minGapMs |-> 500,
      offsetMs |-> 0, nPoints |-> MaxPoints] : steps \in StepCounts}

InitPipeline ==
    /\ pc = "loaded"
    /\ env = <<>>
    /\ env2 = <<>>
    /\ fs \in SampleRates
    /\ opts \in PipelineOpts
    /\ hs = <<>>
    /\ ext \in {[used |-> u, videoEvents |-> VideoOf({1, 4, 7, 10}, StepTicks),
                 tolSec |-> 5, syncRange |-> MaxShift, baselineSec |-> 0] :
                   u \in BOOLEAN}
    /\ result = NoResult
    /\ state = NoState

\* the change handlers of the two file inputs
FileChange ==
    /\ pc \in {"loaded", "run", "clear"}
    /\ pc' = "fileChange"
    /\ env' \in Channel1Envs
    /\ env2' \in Channel2Envs
    /\ state' = [state EXCEPT !.file1 = TRUE, !.file2 = TRUE]
    /\ UNCHANGED <<fs, opts, hs, ext, result>>

\* the click handler of the run button
RunClick ==
    /\ pc \in {"loaded", "fileChange", "run", "clear"}
    /\ pc' = "run"
    /\ \E fault \in Faults :
          \E done \in {run(state, env, env2, fs, opts, ext, fault)} :
              /\ state' = done.state
              /\ result' = [ok |-> ~done.state.isErr, rejected |-> done.rejected,
                             hadResults |-> ~state.result1.none]
    /\ UNCHANGED <<env, env2, fs, opts, hs, ext>>

\* the click handler of the clear button: the files are dropped, the plots
\* are cleared, the results stay
Clear ==
    /\ pc \in {"fileChange", "run"}
    /\ pc' = "clear"
    /\ state' = [state EXCEPT !.file1 = FALSE, !.file2 = FALSE,
                              !.msg = "cleared", !.isErr = FALSE]
    /\ UNCHANGED <<env, env2, fs, opts, hs, ext, result>>

\* the click handlers of the two HS-CSV buttons: the events of the result,
\* under the name of the parse
DownloadHS ==
    /\ pc \in {"run", "clear"}
    /\ pc' = "dlhs"
    /\ \E ch \in {1, 2} :
          \E res \in {IF ch = 1 THEN state.result1 ELSE state.result2} :
              /\ ~res.none
              /\ result' = [ok |-> TRUE, channel |-> ch, hs |-> res.hs,
                            from |-> res.envRaw,
                            name |-> IF ch = 1 THEN state.parsed1 ELSE state.parsed2]
    /\ UNCHANGED <<env, env2, fs, opts, hs, ext, state>>

NextPipeline == FileChange \/ RunClick

\* the same page with the clear button and the download buttons, without the
\* video assistance
InitFiles ==
    /\ InitPipeline
    /\ ~ext.used
    /\ opts.expectedCount = Null

NextFiles == FileChange \/ RunClick \/ Clear \/ DownloadHS

SpecFiles == InitFiles /\ [][NextFiles]_vars

SpecPipeline == InitPipeline /\ [][NextPipeline]_vars

-----------------------------------------------------------------------------
(* Claims about the whole run *)

\* the state object of a first run on the files now selected
firstRun ==
    run([NoState EXCEPT !.file1 = TRUE, !.file2 = TRUE],
        env, env2, fs, opts, ext, "none").state

\* C11: a run that completes leaves the events, the cycles and the cycle
\* mean and SD of both channels, and the event source, exactly as a first run
\* on the same samples, sampling rate, parameters, expected count and external
\* events leaves them, whatever an earlier run left in the state object.
C11_RunIndependentOfEarlierResults ==
    (pc = "run" /\ state.msg = "done") =>
        /\ state.result1 = firstRun.result1
        /\ state.result2 = firstRun.result2
        /\ state.hsSource = firstRun.hsSource

\* a completed run whose results differ from the ones found in the state
\* object by the handler is reached: here the state after a run on a channel 1
\* of four events, once a run on three events has completed
C11_Witness ==
    /\ pc = "run"
    /\ state.msg = "done"
    /\ env = Train(PipeLen, {1, 4, 7, 10})
    /\ Len(state.result1.hs) \in {2, 4}
    /\ state.result1.mean # <<>>
    /\ result.ok
    /\ result.hadResults

\* the reference events of the run on the files now selected
referenceEvents ==
    LET r1 == computePipeline(env, fs, opts, opts.expectedCount, opts.nPoints)
    IN  refineReference(r1.res.hs, fs, opts.expectedCount, ext).hs

\* the events detected on channel 2 itself
ownEvents2 == computePipeline(env2, fs, opts, Null, opts.nPoints).res.hs

\* C14: after a run that completes, channel 1 carries the reference events
\* and channel 2 carries the reference events below the length of its own
\* envelope, in the same order; the cycles of channel 2 are cut at these
\* events and not at the events detected on channel 2.
C14_BothChannelsCutAtReference ==
    (pc = "run" /\ state.msg = "done") =>
        /\ state.result1.hs = referenceEvents
        /\ state.result2.hs =
              SelectSeq(referenceEvents, LAMBDA i : i < Len(env2))
        /\ state.result2.cycles =
              normalizeCycles(state.result2.envPct, state.result2.hs,
                              opts.nPoints).cycles

\* a completed run where channel 2 is shorter than the last reference event
\* and its own events are not the reference events
C14_Witness ==
    /\ pc = "run"
    /\ state.msg = "done"
    /\ Len(state.result2.hs) < Len(state.result1.hs)
    /\ Len(state.result2.hs) >= 2
    /\ ownEvents2 # state.result2.hs

\* C19: whatever fails while run executes, run returns normally: the promise
\* is not rejected, and the message area shows the text of the error, marked
\* as an error.
C19_RunCatchesEveryFailure ==
    pc = "run" =>
        /\ result.rejected = FALSE
        /\ state.msg # ""
        /\ state.msg # "done" => state.isErr

\* a run that failed in the detection, and showed it
C19_Witness ==
    /\ pc = "run"
    /\ state.isErr
    /\ state.file1
    /\ state.msg \notin {"CSV could not be read", "plot could not be drawn"}
    /\ result.rejected = FALSE

-----------------------------------------------------------------------------
(* The k sweep of detectHS, checked under SpecDetect *)

\* the candidates of the sweep on the envelope at hand, by k
onsetCandidate(k10) == candidateAt(env, fs, opts, median2(env), spreadOf(env), k10)
peakCandidate(k4) == candidatePeak(env, fs, opts, median2(env), spreadPeak(env), k4)

\* C20: the result of the k sweep is one of the sweep's candidates of 2 or
\* more events; no candidate of any k has a lower score, and no candidate of a
\* smaller k has the same score.
C20_LowestScoreFirstFound ==
    /\ (pc = "detectHS" /\ result.ok /\ result.mode = "onset") =>
          /\ result.k \in KFirst10..KLast10
          /\ onsetCandidate(result.k) = [none |-> FALSE, res |-> result]
          /\ Len(result.hs) >= 2
          /\ \A k10 \in KFirst10..KLast10 :
                LET c == onsetCandidate(k10)
                IN  ~c.none =>
                      /\ ScoreLeq(result.score, c.res.score)
                      /\ k10 < result.k => ScoreLess(result.score, c.res.score)
    /\ (pc = "detectHS_peak" /\ result.ok) =>
          /\ result.k \in KFirst4..KLast4
          /\ peakCandidate(result.k) = [none |-> FALSE, res |-> result]
          /\ Len(result.hs) >= 2
          /\ \A k4 \in KFirst4..KLast4 :
                LET c == peakCandidate(k4)
                IN  ~c.none =>
                      /\ ScoreLeq(result.score, c.res.score)
                      /\ k4 < result.k => ScoreLess(result.score, c.res.score)

\* a sweep where the best candidate is not the first one, and a later k
\* gives the best score again
C20_Witness ==
    /\ pc = "detectHS"
    /\ result.ok
    /\ result.mode = "onset"
    /\ \E k10 \in KFirst10..KLast10 :
          /\ k10 < result.k
          /\ ~onsetCandidate(k10).none
    /\ \E k10 \in KFirst10..KLast10 :
          /\ k10 > result.k
          /\ ~onsetCandidate(k10).none
          /\ ScoreSame(onsetCandidate(k10).res.score, result.score)

-----------------------------------------------------------------------------
(* Specification SpecCycles: the cycles of an envelope between its events, *)
(* and their mean and SD                                                   *)

\* number of samples of the envelope
CycLen == 8
\* most events drawn
MaxCycEvents == 3

\* a varying envelope, whole or with one sample that is not a number
CycleEnvs ==
    {[i \in 1..CycLen |-> IF i = p THEN NaN ELSE 1 + ((i * i) % 3)] :
        p \in 0..CycLen}

CycleEvents ==
    {AscSeqOf(S) : S \in {S \in SUBSET (0..(CycLen - 1)) :
                            Cardinality(S) \in 2..MaxCycEvents}}

NoCycles == [grid |-> <<>>, pairs |-> <<>>, cycles |-> <<>>, mean |-> <<>>, sd |-> <<>>]

InitCycles ==
    /\ pc = "input"
    /\ env \in CycleEnvs
    /\ env2 = <<>>
    /\ fs \in SampleRates
    /\ opts \in {[expectedCount |-> Null, minBurstMs |-> 0, minGapMs |-> 0,
                  offsetMs |-> 0, nPoints |-> n] : n \in 1..MaxPoints}
    /\ hs \in CycleEvents
    /\ ext = NoExt
    /\ result = NoCycles
    /\ state = NoState

\* const nPoints = parseInt($("npoints").value, 10)
nPointsOf == opts.nPoints

\* computePipeline from the events on: percentPeak, normalizeCycles, meanAndSD
NormalizeCycles ==
    /\ pc = "input"
    /\ pc' = "normalizeCycles"
    /\ LET res == pipelineResult(env, [hs |-> hs, k |-> Null, thr |-> Null], nPointsOf)
       IN  result' = [grid |-> res.grid,
                      pairs |-> normalizeCycles(res.envPct, hs, nPointsOf).pairs,
                      cycles |-> res.cycles, mean |-> res.mean, sd |-> res.sd]
    /\ UNCHANGED <<env, env2, fs, opts, hs, ext, state>>

\* the third revision: normalizeCycles on times, then meanStdOfCycles
NormalizeCycles_time ==
    /\ pc = "input"
    /\ pc' = "normalizeCycles_time"
    /\ LET cyc == normalizeCycles_time(percentPeak(env, hs).out, hs, nPointsOf)
           ms  == meanStdOfCycles(cyc.cycles)
       IN  result' = [grid |-> cyc.grid, pairs |-> cyc.pairs, cycles |-> cyc.cycles,
                      mean |-> ms.mean, sd |-> ms.sd]
    /\ UNCHANGED <<env, env2, fs, opts, hs, ext, state>>

NextCycles == NormalizeCycles \/ NormalizeCycles_time

SpecCycles == InitCycles /\ [][NextCycles]_vars

-----------------------------------------------------------------------------
(* Claims on the cycles, checked under SpecCycles *)

CyclesDone == pc \in {"normalizeCycles", "normalizeCycles_time"}

\* C15: every cycle has nPoints values and the grid has nPoints abscissae,
\* the first 0 and the last 100, for every nPoints >= 1.
C15_GridFromZeroToHundred ==
    CyclesDone =>
        /\ \A c \in 1..Len(result.cycles) : Len(result.cycles[c]) = nPointsOf
        /\ Len(result.grid) = nPointsOf
        /\ FracEq(result.grid[1], Frac(0, 1))
        /\ FracEq(result.grid[nPointsOf], Frac(100, 1))

\* the events that start a segment of 3 or more samples
pairsOfThree == SelectSeq([i \in 1..(Len(hs) - 1) |-> i], LAMBDA i : hs[i + 1] - hs[i] >= 3)

\* C17: a cycle is emitted, in event order, for exactly the consecutive event
\* pairs with hs[i+1] - hs[i] >= 3.
C17_SkipsBelowThreeSamples ==
    CyclesDone =>
        /\ result.pairs = pairsOfThree
        /\ Len(result.cycles) = Len(pairsOfThree)

\* the finite values of all cycles at grid point j
finiteAt(j) == SelectSeq(column(result.cycles, j), LAMBDA v : ~v.nan)

\* C16: at every grid point the mean is the mean of the finite values (NaN
\* when there is none) and the SD is the sample SD, divisor count - 1, of the
\* finite values (NaN when there are fewer than 2).
C16_MeanAndSampleSD ==
    (CyclesDone /\ Len(result.cycles) > 0) =>
        /\ Len(result.mean) = nPointsOf
        /\ Len(result.sd) = nPointsOf
        /\ \A j \in 1..nPointsOf :
              /\ FracEq(result.mean[j], meanOver(finiteAt(j)))
              /\ FracEq(result.sd[j], sdOver_sample(finiteAt(j)))

-----------------------------------------------------------------------------
(* The degenerate reference, checked under SpecPct *)

\* C18: when the reference is not finite or not positive, the percent-peak
\* output has the envelope's length and every value of it is NaN.
C18_AllNaNOnDegenerateReference ==
    (/\ pc \in {"percentPeak", "toPercentPeak"}
     /\ (~IsFinite(result.envPct.ref) \/ result.envPct.ref <= 0)) =>
        /\ Len(result.envPct.out) = Len(env)
        /\ \A i \in 1..Len(env) : result.envPct.out[i].nan

-----------------------------------------------------------------------------
(* The front end of computePipeline: the checks on the samples and on the  *)
(* cutoffs, and the filters that are applied.  The arithmetic of the       *)
(* filters is not modelled: the outcome names the filters applied, in      *)
(* order, with their cutoffs.                                              *)

\* x.length ? c / x.length : 0, as the pair c, length; x is an array of
\* values that are NaN or fractions
varRatioFinite(x) == [num |-> Len(SelectSeq(x, LAMBDA v : ~v.nan)), den |-> Len(x)]

\* finiteRatio < 0.95
ratioBelowFloor(r) == r.den = 0 \/ 20 * r.num < 19 * r.den

\* index (0-based) of the first finite sample at or after i, Len(x) if none
RECURSIVE nextFinite(_, _)
nextFinite(x, i) ==
    IF i >= Len(x) \/ IsFinite(x[i + 1]) THEN i ELSE nextFinite(x, i + 1)

\* index (0-based) of the last finite sample at or before i, -1 if none
RECURSIVE lastFinite(_, _)
lastFinite(x, i) ==
    IF i < 0 \/ IsFinite(x[i + 1]) THEN i ELSE lastFinite(x, i - 1)

\* sanitizeArray: all zeros when no sample is finite; the samples before the
\* first finite one take its value; a gap is filled by linear interpolation
\* between its finite neighbours, or by the left one when it runs to the end
sanitizeArray(x) ==
    LET first == nextFinite(x, 0)
    IN  IF first >= Len(x) THEN [i \in 1..Len(x) |-> Frac(0, 1)]
        ELSE [i \in 1..Len(x) |->
                IF IsFinite(x[i]) THEN Frac(x[i], 1)
                ELSE IF i - 1 < first THEN Frac(x[first + 1], 1)
                ELSE LET s     == lastFinite(x, i - 1)
                         e     == nextFinite(x, i - 1)
                         left  == Frac(x[s + 1], 1)
                         right == IF e < Len(x) THEN Frac(x[e + 1], 1) ELSE left
                     IN  lerp(left, right, (i - 1) - s, e - s)]

TooManyGaps == "too many missing samples"
TooShort == "less than 2 seconds of data"
HighPassTooHigh == "high-pass cutoff too high"
LowPassTooHigh == "low-pass cutoff too high"

FrontThrown(msg) == [thrown |-> TRUE, error |-> msg, filters |-> <<>>]

\* if (hp > 0) highpass; if (lp > 0 && lp < fs / 2) lowpass
filtersApplied(f, hp, lp) ==
    (IF hp > 0 THEN <<[type |-> "highpass", fc |-> hp]>> ELSE <<>>) \o
    (IF lp > 0 /\ 2 * lp < f THEN <<[type |-> "lowpass", fc |-> lp]>> ELSE <<>>)

\* computePipeline up to the filters: demean, then the filters, no check
frontEnd(x, f, hp, lp) ==
    [thrown |-> FALSE, error |-> "", filters |-> filtersApplied(f, hp, lp)]

\* computePipeline of the revision with checks, up to the filters: the ratio
\* of finite samples is taken on the sanitized array
frontEnd_safe(x, f, hp, lp) ==
    LET y == sanitizeArray(x)
        finiteRatio == varRatioFinite(y)
    IN  IF ratioBelowFloor(finiteRatio) THEN FrontThrown(TooManyGaps)
        ELSE IF Len(y) < f * 2 THEN FrontThrown(TooShort)
        ELSE IF 2 * hp >= f THEN FrontThrown(HighPassTooHigh)
        ELSE IF 2 * lp >= f THEN FrontThrown(LowPassTooHigh)
        ELSE [thrown |-> FALSE, error |-> "", filters |-> filtersApplied(f, hp, lp),
              sanitized |-> y]

-----------------------------------------------------------------------------
(* Specification SpecFront: the front end on raw samples and cutoffs *)

\* samples in 2 seconds at the sampling rate drawn
FrontLen == 8
\* cutoffs drawn, in Hz: 0 (off), below, at and above fs/2
MaxCutoff == 3

\* raw samples, with samples that are not numbers at the places P
RawSamples ==
    {[i \in 1..n |-> IF i \in P THEN NaN ELSE 1 + (i % 2)] :
        n \in {0, FrontLen - 1, FrontLen}, P \in SUBSET {1, 2, 5, FrontLen}}

FrontOpts ==
    {[expectedCount |-> Null, minBurstMs |-> 0, minGapMs |-> 0, offsetMs |-> 0,
      hp |-> hp, lp |-> lp] : hp \in 0..MaxCutoff, lp \in 0..MaxCutoff}

InitFront ==
    /\ pc = "input"
    /\ env \in RawSamples
    /\ env2 = <<>>
    /\ fs \in SampleRates
    /\ opts \in FrontOpts
    /\ hs = <<>>
    /\ ext = NoExt
    /\ result = NoResult
    /\ state = NoState

FrontEnd ==
    /\ pc = "input"
    /\ pc' = "frontEnd"
    /\ result' = frontEnd(env, fs, opts.hp, opts.lp)
    /\ UNCHANGED <<env, env2, fs, opts, hs, ext, state>>

FrontEnd_safe ==
    /\ pc = "input"
    /\ pc' = "frontEnd_safe"
    /\ result' = frontEnd_safe(env, fs, opts.hp, opts.lp)
    /\ UNCHANGED <<env, env2, fs, opts, hs, ext, state>>

NextFront == FrontEnd \/ FrontEnd_safe

SpecFront == InitFront /\ [][NextFront]_vars

-----------------------------------------------------------------------------
(* Claims on the front end, checked under SpecFront *)

FrontDone == pc \in {"frontEnd", "frontEnd_safe"}

\* C12: when the high-pass or the low-pass cutoff is at or above fs/2 the
\* pipeline fails; when it does not fail, every configured cutoff is below
\* fs/2 and its filter is applied.
C12_CutoffAtNyquistFails ==
    FrontDone =>
        /\ (2 * opts.hp >= fs \/ 2 * opts.lp >= fs) => result.thrown
        /\ ~result.thrown =>
              /\ \A i \in 1..Len(result.filters) : 2 * result.filters[i].fc < fs
              /\ opts.hp > 0 =>
                    \E i \in 1..Len(result.filters) : result.filters[i].type = "highpass"
              /\ opts.lp > 0 =>
                    \E i \in 1..Len(result.filters) : result.filters[i].type = "lowpass"

\* the share of finite samples among the samples given
rawFiniteRatio == [num |-> Len(SelectSeq(env, IsFinite)), den |-> Len(env)]

\* C13: computePipeline of the revision with checks fails with an
\* insufficient-data error when fewer than 95 % of the samples given are
\* finite, and when there are fewer than 2 seconds of samples.
C13_FewFiniteSamplesFail ==
    (/\ pc = "frontEnd_safe"
     /\ (ratioBelowFloor(rawFiniteRatio) \/ Len(env) < 2 * fs)) =>
        /\ result.thrown
        /\ result.error \in {TooManyGaps, TooShort}

-----------------------------------------------------------------------------
(* The peak fallback of detectHS, checked under SpecDetect *)

\* the sweep is entered (m finite and above 0) and some k gives a candidate
sweepYields ==
    /\ ~spreadOf(env).nan
    /\ spreadOf(env).num > 0
    /\ \E k10 \in KFirst10..KLast10 : ~onsetCandidate(k10).none

\* the peaks the fallback picks on the envelope at hand
fallbackPeaks ==
    pickPeaksGreedy(env, MinGapOf, percentileTimes(env, 4, 5), opts.expectedCount)

\* C21: when some k of the sweep gives a candidate of 2 or more events,
\* detectHS returns a threshold candidate with a numeric k, never a
\* peak-fallback or peak-direct result; and the peaks the fallback picks are
\* pairwise at least minGap samples apart.
C21_FallbackOnlyWithoutCandidate ==
    (pc \in {"detectHS", "detectHS_first"}) =>
        /\ sweepYields =>
              /\ result.ok
              /\ result.mode = "onset"
              /\ result.k \in KFirst10..KLast10
        /\ (result.ok /\ result.mode # "onset") => ~sweepYields
        /\ \A i, j \in 1..Len(fallbackPeaks) :
              i # j => Abs(fallbackPeaks[i] - fallbackPeaks[j]) >= MinGapOf

\* the sweep gives a candidate and is used, on an envelope where the
\* fallback would have found 2 or more peaks with a minGap above 0
C21_Witness ==
    /\ pc = "detectHS"
    /\ sweepYields
    /\ result.ok
    /\ result.mode = "onset"
    /\ MinGapOf > 0
    /\ Len(fallbackPeaks) >= 2
    /\ peakFallback(env, fs, opts).ok

-----------------------------------------------------------------------------
(* Specification SpecMerge: the merge of candidate events closer than      *)
(* minGap.  The candidates are ascending sample indices; the strength of a *)
(* candidate is the envelope at its index.                                 *)

MaxMergeIdx == 5
MaxMergeEvents == 3

MergeEnvs == [1..(MaxMergeIdx + 1) -> Amplitudes \ {0}]
MergeEvents ==
    {AscSeqOf(S) : S \in {S \in SUBSET (0..MaxMergeIdx) :
                            Cardinality(S) \in 1..MaxMergeEvents}}
MergeOpts == {[NoOpts EXCEPT !.minGapMs = g] : g \in {0, 500, 1000}}

\* the third revision: suppress duplicates within minGap
\* if (filtered.length === 0 || h - filtered[filtered.length - 1] >= minGap) filtered.push(h)
suppressWithinMinGap(h, minGap) ==
    IF h = <<>> THEN <<>> ELSE MergeGap(Tail(h), <<Head(h)>>, minGap)

InitMerge ==
    /\ pc = "input"
    /\ env \in MergeEnvs
    /\ env2 = <<>>
    /\ fs \in SampleRates
    /\ opts \in MergeOpts
    /\ hs \in MergeEvents
    /\ ext = NoExt
    /\ result = NoResult
    /\ state = NoState

\* strength of the candidate at index i
strengthAt(i) == env[i + 1]

ApplyOffsetAndMerge ==
    /\ pc = "input"
    /\ pc' = "applyOffsetAndMerge"
    /\ result' = [ok |-> TRUE,
                  hs |-> applyOffsetAndMerge(hs, MsToSamples(fs, opts.offsetMs),
                                             MinGapOf, Len(env))]
    /\ UNCHANGED <<env, env2, fs, opts, hs, ext, state>>

MergeByMinGap ==
    /\ pc = "input"
    /\ pc' = "mergeByMinGap"
    /\ LET merged == mergeByMinGap([i \in 1..Len(hs) |-> <<hs[i], strengthAt(hs[i])>>],
                                   <<>>, Max2(1, MinGapOf))
       IN  result' = [ok |-> TRUE, hs |-> [i \in 1..Len(merged) |-> merged[i][1]]]
    /\ UNCHANGED <<env, env2, fs, opts, hs, ext, state>>

SuppressWithinMinGap ==
    /\ pc = "input"
    /\ pc' = "suppressWithinMinGap"
    /\ result' = [ok |-> TRUE, hs |-> suppressWithinMinGap(hs, MinGapOf)]
    /\ UNCHANGED <<env, env2, fs, opts, hs, ext, state>>

NextMerge == ApplyOffsetAndMerge \/ MergeByMinGap \/ SuppressWithinMinGap

SpecMerge == InitMerge /\ [][NextMerge]_vars

-----------------------------------------------------------------------------
(* Claims on the merge, checked under SpecMerge *)

MergeDone == pc \in {"applyOffsetAndMerge", "mergeByMinGap", "suppressWithinMinGap"}

\* C22: of two candidates closer together than minGap and of different
\* strengths, the merge keeps the stronger one and drops the other, whether
\* the stronger one is the earlier or the later of the two.
C22_MergeKeepsStronger ==
    (/\ MergeDone
     /\ Len(hs) = 2
     /\ hs[2] - hs[1] < MinGapOf
     /\ strengthAt(hs[1]) # strengthAt(hs[2])) =>
        result.hs = <<IF strengthAt(hs[1]) > strengthAt(hs[2]) THEN hs[1] ELSE hs[2]>>

-----------------------------------------------------------------------------
(* Moving RMS. A value of the envelope is kept as the sum of squares over   *)
(* its window and the number of samples in it: the envelope is the square   *)
(* root of sumsq / count.                                                   *)

\* sq[i] = x[i] * x[i]
squares(x) == [i \in 1..Len(x) |-> x[i] * x[i]]

\* prefix[0] = 0, prefix[i + 1] = prefix[i] + sq[i]; prefixSums(sq)[k + 1] is prefix[k]
RECURSIVE prefixSums(_)
prefixSums(sq) ==
    IF sq = <<>> THEN <<0>>
    ELSE LET p == prefixSums(SubSeq(sq, 1, Len(sq) - 1))
         IN  Append(p, p[Len(p)] + sq[Len(sq)])

\* movingRMS(x, win): out[i] over [max(0, i - half), min(n, i + half + 1))
movingRMS(x, win) ==
    LET n == Len(x)
        half == win \div 2
    IN  With(prefixSums(squares(x)), LAMBDA prefix :
            [k \in 1..n |->
                LET i == k - 1
                    s == Max2(0, i - half)
                    e == Min2(n, i + half + 1)
                IN  [sumsq |-> prefix[e + 1] - prefix[s + 1], count |-> e - s]])

\* the loop of bandpassRectifyRms after the filters: q holds the last w values
RECURSIVE trailingRms(_, _, _, _)
trailingRms(y, w, q, out) ==
    IF Len(out) = Len(y) THEN out
    ELSE LET v  == y[Len(out) + 1]
             q1 == Append(q, v)
             q2 == IF Len(q1) > w THEN Tail(q1) ELSE q1
         IN  trailingRms(y, w, q2, Append(out, [sumsq |-> SumSq(q2), count |-> Len(q2)]))

\* bandpassRectifyRms(x, fs, 0, 0, rmsMs): both filters are skipped
bandpassRectifyRms(x, f, rmsMs) ==
    trailingRms([i \in 1..Len(x) |-> IF x[i] < 0 THEN -x[i] ELSE x[i]],
                Max2(1, MsToSamples(f, rmsMs)), <<>>, <<>>)

-----------------------------------------------------------------------------
(* Specification SpecRms: the envelope of rectified samples *)

RmsLen == 5
MaxWin == 4

RmsSignals == SeqsOver(Amplitudes, 1, RmsLen)
RmsOpts ==
    {[expectedCount |-> Null, minBurstMs |-> 0, minGapMs |-> 0, offsetMs |-> 0,
      rmsMs |-> 250 * w] : w \in 0..MaxWin}

InitRms ==
    /\ pc = "input"
    /\ env \in RmsSignals
    /\ env2 = <<>>
    /\ fs \in SampleRates
    /\ opts \in RmsOpts
    /\ hs = <<>>
    /\ ext = NoExt
    /\ result = NoResult
    /\ state = NoState

\* const win = Math.max(1, Math.round((fs * rmsMs) / 1000))
winOf == Max2(1, MsToSamples(fs, opts.rmsMs))

MovingRMS ==
    /\ pc = "input"
    /\ pc' = "movingRMS"
    /\ result' = [ok |-> TRUE, env |-> movingRMS(env, winOf)]
    /\ UNCHANGED <<env, env2, fs, opts, hs, ext, state>>

BandpassRectifyRms ==
    /\ pc = "input"
    /\ pc' = "bandpassRectifyRms"
    /\ result' = [ok |-> TRUE, env |-> bandpassRectifyRms(env, fs, opts.rmsMs)]
    /\ UNCHANGED <<env, env2, fs, opts, hs, ext, state>>

NextRms == MovingRMS \/ BandpassRectifyRms

SpecRms == InitRms /\ [][NextRms]_vars

RmsDone == pc \in {"movingRMS", "bandpassRectifyRms"}

\* the indices of [i - win/2, i + win/2) inside the signal, 0-based
halfOpenWindow(i, win, n) == {k \in 0..(n - 1) : 2 * i - win <= 2 * k /\ 2 * k < 2 * i + win}

\* the direct sum of squares over a set of 0-based indices
directSumSq(x, W) == SumSq([j \in 1..Cardinality(W) |-> x[AscSeqOf(W)[j] + 1]])

\* C23: the envelope at i is the RMS over [i - win/2, i + win/2) clipped to
\* the signal, shortened at the edges, equal to the direct sum over that window
C23_WindowHalfOpen ==
    RmsDone =>
        \A i \in 0..(Len(env) - 1) :
            LET W == halfOpenWindow(i, winOf, Len(env))
            IN  result.env[i + 1].sumsq * Cardinality(W) =
                    directSumSq(env, W) * result.env[i + 1].count

-----------------------------------------------------------------------------
(* Service worker. The cache maps a URL to the status of the response it    *)
(* holds, Null when it holds none; a fetch of the network gives a status,   *)
(* or Null when it rejects. cache.put runs after the handler has answered,  *)
(* so a write is first pending and lands later.                             *)

\* Response.ok
Ok(status) == status >= 200 /\ status <= 299

\* url.origin === self.location.origin
sameOrigin(url) == url # "cdn"

\* the fetch listener of rehacalc-v1: every same-origin GET response is stored
onFetch_v1(cache, req, net) ==
    IF req.method = "GET" /\ cache[req.url] # Null
    THEN [status |-> cache[req.url], fromCache |-> TRUE, put |-> {}]
    ELSE IF net = Null THEN [status |-> Null, fromCache |-> FALSE, put |-> {}]
    ELSE [status |-> net, fromCache |-> FALSE,
          put |-> IF sameOrigin(req.url) /\ req.method = "GET"
                  THEN {[url |-> req.url, status |-> net, method |-> req.method]}
                  ELSE {}]

\* the fetch listener of rehacalc-v2: navigations are network-first with the
\* cached index as fallback, the rest is cache-first and stores ok responses
onFetch(cache, req, net) ==
    IF req.mode = "navigate"
    THEN IF net # Null THEN [status |-> net, fromCache |-> FALSE, put |-> {}]
         ELSE [status |-> cache["index"], fromCache |-> cache["index"] # Null, put |-> {}]
    ELSE IF req.method = "GET" /\ cache[req.url] # Null
    THEN [status |-> cache[req.url], fromCache |-> TRUE, put |-> {}]
    ELSE IF net = Null THEN [status |-> Null, fromCache |-> FALSE, put |-> {}]
    ELSE [status |-> net, fromCache |-> FALSE,
          put |-> IF sameOrigin(req.url) /\ req.method = "GET" /\ Ok(net)
                  THEN {[url |-> req.url, status |-> net, method |-> req.method]}
                  ELSE {}]

-----------------------------------------------------------------------------
(* Specification SpecWorker: fetches through the activated v2 worker *)

Urls == {"index", "app", "data", "cdn"}
Statuses == {200, 404}
Requests == [url : Urls, method : {"GET", "POST"}, mode : {"navigate", "cors"}]

\* install: cache.addAll(ASSETS) stores the assets, and only ok responses;
\* activate: the caches of other names are deleted
InitWorker ==
    /\ pc = "activated"
    /\ env = <<>>
    /\ env2 = <<>>
    /\ fs \in SampleRates
    /\ opts = NoOpts
    /\ hs = <<>>
    /\ ext = NoExt
    /\ result = NoResult
    /\ state = [cache |-> [u \in Urls |-> IF u \in {"index", "app"} THEN 200 ELSE Null],
                pending |-> {}]

Fetch ==
    /\ pc' = "fetch"
    /\ \E req \in Requests, net \in Statuses \cup {Null} :
          \E r \in {onFetch(state.cache, req, net)} :
              /\ result' = [ok |-> r.status # Null /\ Ok(r.status), status |-> r.status,
                            fromCache |-> r.fromCache, req |-> req]
              /\ state' = [state EXCEPT !.pending = @ \cup r.put]
    /\ UNCHANGED <<env, env2, fs, opts, hs, ext>>

\* caches.open(CACHE_NAME).then((cache) => cache.put(req, copy))
CachePut ==
    /\ pc' = "put"
    /\ \E p \in state.pending :
          state' = [cache |-> [state.cache EXCEPT ![p.url] = p.status],
                    pending |-> state.pending \ {p}]
    /\ UNCHANGED <<env, env2, fs, opts, hs, ext, result>>

NextWorker == Fetch \/ CachePut

SpecWorker == InitWorker /\ [][NextWorker]_vars

\* C24: only ok responses to same-origin GET requests are written to the
\* cache, so no non-ok response is stored or served from it
C24_OnlyOkResponsesCached ==
    /\ \A p \in state.pending : p.method = "GET" /\ sameOrigin(p.url) /\ Ok(p.status)
    /\ \A u \in Urls : state.cache[u] # Null => Ok(state.cache[u])
    /\ (pc = "fetch" /\ result.fromCache) => Ok(result.status)

\* a same-origin GET answered 404 by the network, with nothing stored for it
C24_Witness ==
    /\ pc = "fetch"
    /\ result.status = 404
    /\ ~result.fromCache
    /\ result.req.method = "GET"
    /\ result.req.mode = "cors"
    /\ sameOrigin(result.req.url)
    /\ state.cache[result.req.url] = Null
    /\ \A p \in state.pending : p.url # result.req.url

\* C25: a run that ends with the success message has a reference of at least
\* two events and, on each channel, at least one cycle with a mean and an SD
C25_SuccessHasCycles ==
    (pc = "run" /\ state.msg = "done") =>
        /\ Len(state.result1.hs) >= 2
        /\ state.result1.cycles # <<>>
        /\ state.result1.mean # <<>>
        /\ state.result1.sd # <<>>
        /\ state.result2.cycles # <<>>
        /\ state.result2.mean # <<>>
        /\ state.result2.sd # <<>>

\* C26: after a run and after the clear button, a result held in the state
\* object was computed from the parse held beside it and from the file now
\* selected, and a download exports events under the name of their own file
C26_ResultsFromCurrentFiles ==
    /\ (pc \in {"run", "clear"} /\ ~state.result1.none) =>
          /\ state.file1
          /\ state.parsed1 = env
          /\ state.result1.envRaw = state.parsed1
    /\ (pc \in {"run", "clear"} /\ ~state.result2.none) =>
          /\ state.file2
          /\ state.parsed2 = env2
          /\ state.result2.envRaw = state.parsed2
    /\ pc = "dlhs" => result.from = result.name

\* C28: a run on two files that parse succeeds whenever the detection on
\* channel 1 succeeds; a detection failure on channel 2 does not fail it
C28_Channel2FailureTolerated ==
    (/\ pc = "run"
     /\ state.file1 /\ state.file2
     /\ state.msg \notin {"CSV could not be read", "plot could not be drawn"}
     /\ ~computePipeline(env, fs, opts, opts.expectedCount, opts.nPoints).thrown) =>
        state.msg = "done"

\* $("cycn1").textContent = String(Math.max(0, state.result1.hs.length - 1))
cycn(h) == Max2(0, Len(h) - 1)

\* C29: the cycle count shown for a channel is the number of cycles that
\* normalizeCycles produced and that were averaged
C29_DisplayedCountIsCycleCount ==
    CyclesDone => cycn(hs) = Len(result.cycles)

-----------------------------------------------------------------------------
(* Video loading. waitLoadedMetadata returns a promise around two listeners *)
(* of the video element and a timer. w is the closure of one call: its done *)
(* flag, the listeners still attached, the timer still pending, the calls   *)
(* of resolve and what the promise settled to.                              *)

\* the closure right after new Promise(...) has run its executor
NewWait == [done |-> FALSE, onOk |-> TRUE, onErr |-> TRUE, timer |-> TRUE,
            resolves |-> 0, settled |-> FALSE, value |-> FALSE]

\* resolve(v): a promise keeps the first value it is resolved with
resolve(w, v) ==
    [w EXCEPT !.resolves = @ + 1, !.settled = TRUE,
              !.value = IF w.settled THEN @ ELSE v]

\* a cleanup that leaves the listeners and the timer in place
cleanup_keep(w) == w

\* clearTimeout(timer); removeEventListener twice
cleanup(w) == [w EXCEPT !.timer = FALSE, !.onOk = FALSE, !.onErr = FALSE]

onOk(w) == IF w.done THEN w ELSE resolve(cleanup([w EXCEPT !.done = TRUE]), TRUE)

onErr(w) == IF w.done THEN w ELSE resolve(cleanup([w EXCEPT !.done = TRUE]), FALSE)

\* the callback of setTimeout
onTimeout(w) == IF w.done THEN w ELSE resolve(cleanup([w EXCEPT !.done = TRUE]), FALSE)

-----------------------------------------------------------------------------
(* Specification SpecVideo: loadVideoFileToElement, the events of the video *)
(* element and the timer in every order. ext.log holds what has occurred    *)
(* since the current wait began.                                            *)

MaxLog == 4

InitVideo ==
    /\ pc = "idle"
    /\ env = <<>>
    /\ env2 = <<>>
    /\ fs \in SampleRates
    /\ opts = NoOpts
    /\ hs = <<>>
    /\ ext = [used |-> FALSE, log |-> <<>>]
    /\ result = NoResult
    /\ state = [NewWait EXCEPT !.onOk = FALSE, !.onErr = FALSE, !.timer = FALSE]

\* video.src = blobUrl; video.load(); waitLoadedMetadata(video, 1500)
LoadVideo ==
    /\ pc = "idle"
    /\ pc' = "wait1"
    /\ state' = NewWait
    /\ ext' = [ext EXCEPT !.log = <<>>]
    /\ UNCHANGED <<env, env2, fs, opts, hs, result>>

\* the video element fires loadedmetadata; a { once: true } listener is
\* removed before it is called
LoadedMetadata ==
    /\ pc # "idle"
    /\ Len(ext.log) < MaxLog
    /\ ext' = [ext EXCEPT !.log = Append(@, "loadedmetadata")]
    /\ state' = IF state.onOk THEN onOk([state EXCEPT !.onOk = FALSE]) ELSE state
    /\ UNCHANGED <<pc, env, env2, fs, opts, hs, result>>

\* the video element fires error
ErrorEvent ==
    /\ pc # "idle"
    /\ Len(ext.log) < MaxLog
    /\ ext' = [ext EXCEPT !.log = Append(@, "error")]
    /\ state' = IF state.onErr THEN onErr([state EXCEPT !.onErr = FALSE]) ELSE state
    /\ UNCHANGED <<pc, env, env2, fs, opts, hs, result>>

\* the timer fires
Timeout ==
    /\ state.timer
    /\ ext' = [ext EXCEPT !.log = Append(@, "timeout")]
    /\ state' = onTimeout([state EXCEPT !.timer = FALSE])
    /\ UNCHANGED <<pc, env, env2, fs, opts, hs, result>>

\* loadVideoFileToElement resumes after an await: done when ok, a second
\* wait on the data URL after the first failure, a throw after the second
Resume ==
    /\ pc \in {"wait1", "wait2"}
    /\ state.settled
    /\ IF state.value
       THEN /\ pc' = "loaded"
            /\ result' = [ok |-> TRUE]
            /\ UNCHANGED <<state, ext>>
       ELSE IF pc = "wait1"
       THEN /\ pc' = "wait2"
            /\ state' = NewWait
            /\ ext' = [ext EXCEPT !.log = <<>>]
            /\ UNCHANGED result
       ELSE /\ pc' = "failed"
            /\ result' = [ok |-> FALSE, error |-> "video could not be loaded"]
            /\ UNCHANGED <<state, ext>>
    /\ UNCHANGED <<env, env2, fs, opts, hs>>

NextVideo == LoadVideo \/ LoadedMetadata \/ ErrorEvent \/ Timeout \/ Resume

\* a pending timer fires; a settled promise resumes its awaiter
SpecVideo ==
    InitVideo /\ [][NextVideo]_vars /\ WF_vars(Timeout) /\ WF_vars(Resume)

Waiting == pc \in {"wait1", "wait2"}

\* what the promise has to be once something has occurred
SettledOnce ==
    /\ state.resolves <= 1
    /\ state.settled <=> (Waiting /\ ext.log # <<>>) \/ pc \in {"loaded", "failed"}
    /\ state.settled =>
          /\ state.resolves = 1
          /\ state.value <=> Head(ext.log) = "loadedmetadata"
          /\ ~state.onOk /\ ~state.onErr /\ ~state.timer

\* C30: the promise of waitLoadedMetadata settles exactly once in every
\* order of loadedmetadata, error and the timeout: true exactly when
\* loadedmetadata comes first; once settled, the listeners are removed and
\* the timer is cleared, and later events change nothing
C30_SettlesExactlyOnce ==
    /\ []SettledOnce
    /\ [][state.settled => (state'.settled /\ state'.value = state.value
                            /\ state'.resolves = state.resolves) \/ state' = NewWait]_vars
    /\ (Waiting ~> state.settled)

\* the timer came first, loadedmetadata and error came after it
C30_Witness ==
    /\ pc = "wait2"
    /\ ext.log = <<"timeout", "loadedmetadata", "error">>
    /\ state.settled
    /\ ~state.value

-----------------------------------------------------------------------------
(* Specification SpecOverlap: run clicked again while an earlier invocation *)
(* is suspended at an await. The invocations are numbered in the order of   *)
(* their start; pc[i] is where invocation i stands, ext[i] holds its local  *)
(* values across an await (the file handed to handleFile, the result handed *)
(* to plotCycle), state is the one state object they share. A file is the   *)
(* number of the selection it comes from; a parse, a result and a plot      *)
(* carry what they were made from and the invocation that made them.        *)

MaxRuns == 2
MaxFiles == 2

Invocations == 1..MaxRuns

NoLocal == [reading |-> Null, plotting |-> [none |-> TRUE]]

InitOverlap ==
    /\ pc = [i \in Invocations |-> "idle"]
    /\ env = <<>>
    /\ env2 = <<>>
    /\ fs \in SampleRates
    /\ opts = NoOpts
    /\ hs = <<>>
    /\ ext = [i \in Invocations |-> NoLocal]
    /\ result = NoResult
    /\ state = [file1 |-> 1, file2 |-> 1,
                parsed1 |-> [none |-> TRUE], parsed2 |-> [none |-> TRUE],
                result1 |-> NoPipelineResult, result2 |-> NoPipelineResult,
                plot1 |-> [none |-> TRUE], plot2 |-> [none |-> TRUE]]

\* the change listeners of the two file inputs
SelectFile ==
    /\ \E n \in {1, 2} :
          IF n = 1
          THEN state.file1 < MaxFiles /\ state' = [state EXCEPT !.file1 = @ + 1]
          ELSE state.file2 < MaxFiles /\ state' = [state EXCEPT !.file2 = @ + 1]
    /\ UNCHANGED <<pc, env, env2, fs, opts, hs, ext, result>>

\* run up to its first await: clearPlots(), then handleFile(state.file1, ...)
RunStart ==
    /\ \E i \in Invocations :
          /\ pc[i] = "idle"
          /\ \A j \in Invocations : j < i => pc[j] # "idle"
          /\ pc' = [pc EXCEPT ![i] = "read1"]
          /\ ext' = [ext EXCEPT ![i].reading = state.file1]
          /\ state' = [state EXCEPT !.plot1 = [none |-> TRUE], !.plot2 = [none |-> TRUE]]
    /\ UNCHANGED <<env, env2, fs, opts, hs, result>>

\* state.parsed1 = await handleFile(state.file1, ...), then
\* handleFile(state.file2, ...) up to its await
Read1Done ==
    /\ \E i \in Invocations :
          /\ pc[i] = "read1"
          /\ pc' = [pc EXCEPT ![i] = "read2"]
          /\ state' = [state EXCEPT
                          !.parsed1 = [none |-> FALSE, file |-> ext[i].reading, by |-> i]]
          /\ ext' = [ext EXCEPT ![i].reading = state.file2]
    /\ UNCHANGED <<env, env2, fs, opts, hs, result>>

\* state.parsed2 = await handleFile(state.file2, ...), the analysis of
\* state.parsed1 and state.parsed2, then plotCycle("plot1", state.result1)
\* up to its await
Read2Done ==
    /\ \E i \in Invocations :
          /\ pc[i] = "read2"
          /\ pc' = [pc EXCEPT ![i] = "plot1"]
          /\ \E parsed2 \in {[none |-> FALSE, file |-> ext[i].reading, by |-> i]} :
             \E result1 \in {[none |-> FALSE, from |-> state.parsed1, by |-> i]} :
                /\ state' = [state EXCEPT
                                !.parsed2 = parsed2,
                                !.result1 = result1,
                                !.result2 = [none |-> FALSE, from |-> parsed2, by |-> i]]
                /\ ext' = [ext EXCEPT ![i].plotting = result1]
    /\ UNCHANGED <<env, env2, fs, opts, hs, result>>

\* plot 1 is drawn; plotCycle("plot2", state.result2) up to its await
Plot1Done ==
    /\ \E i \in Invocations :
          /\ pc[i] = "plot1"
          /\ pc' = [pc EXCEPT ![i] = "plot2"]
          /\ state' = [state EXCEPT !.plot1 = ext[i].plotting]
          /\ ext' = [ext EXCEPT ![i].plotting = state.result2]
    /\ UNCHANGED <<env, env2, fs, opts, hs, result>>

\* plot 2 is drawn; setMsg of the success
Plot2Done ==
    /\ \E i \in Invocations :
          /\ pc[i] = "plot2"
          /\ pc' = [pc EXCEPT ![i] = "done"]
          /\ state' = [state EXCEPT !.plot2 = ext[i].plotting]
          /\ ext' = [ext EXCEPT ![i] = NoLocal]
    /\ UNCHANGED <<env, env2, fs, opts, hs, result>>

NextOverlap ==
    SelectFile \/ RunStart \/ Read1Done \/ Read2Done \/ Plot1Done \/ Plot2Done

SpecOverlap == InitOverlap /\ [][NextOverlap]_vars

AllDone == \A i \in Invocations : pc[i] = "done"

\* C27: once every invocation has finished, the parses, the results and the
\* plots stem from the invocation started last, and no result was computed
\* from a parse that another invocation wrote
C27_LastInvocationWins ==
    /\ AllDone =>
          /\ state.parsed1.by = MaxRuns /\ state.parsed2.by = MaxRuns
          /\ state.result1.by = MaxRuns /\ state.result2.by = MaxRuns
          /\ state.plot1 = state.result1 /\ state.plot2 = state.result2
    /\ ~state.result1.none => state.result1.from.by = state.result1.by

=============================================================================
